---- MODULE Spec2Model ----
(***************************************************************************)
(* A state-machine model of the reika runtime core: the intrusive task     *)
(* queues, the task pool, the executor (async-executor) and the io_uring   *)
(* reactor (reika-reactor), with the operation futures that bind them.     *)
(***************************************************************************)
EXTENDS Integers, Sequences, FiniteSets, TLC

\* ------------------------------------------------------------------ bounds
NSlots == 2        \* capacity N of the one TaskPool<F, N> of the model
RingSize == 1      \* entries of the submission ring
MaxOps == 2        \* operation futures one task awaits, at most
MaxStray == 1      \* timeout markers alive when the kernel may still fail a submit
MaxQueued == 2     \* req_queued up to which a push may still fail
MaxUnder == 2      \* how far below zero the (wrapping) req_queued is followed

\* --------------------------------------------------------------- constants
NULL == 0          \* the null task pointer / user-data of a timeout marker
ETIME == 62        \* libc::ETIME
MaxI32 == 2147483647   \* i32::MAX, the width of ReactorRequest::return_val
MinI32 == -MaxI32 - 1

Slots == 1..NSlots
OpResults == {-2, 0}   \* kernel results of a request: a failure (negative) and a success

VARIABLES
    \* TaskHeader fields, one header per pool slot
    executor_queue_next,    \* executor_queue_item.next
    task_pool_queue_next,   \* task_pool_queue_item.next
    executor,               \* header.executor is Some(ex)
    poll_fn,                \* header.poll_fn is Some
    task_pool_ptr,          \* header.task_pool_ptr is non-null
    task_pool_finalizer_fn, \* header.task_pool_finalizer_fn is Some
    \* TaskStorage.future and the operation future it awaits
    future,                 \* [st, ops, awaiting]
    req,                    \* ReactorRequest of the awaited operation: [return_val, waker]
    \* TaskPool
    exhaust_list_cnt,
    free_list_head,
    \* Executor
    task_queue_head,
    spawned,
    \* Reactor
    sq,                     \* submission queue entries (user_data), not yet handed to the kernel
    kern,                   \* requests the kernel holds, as user_data -> count
    cq,                     \* completion queue: <<user_data, result>>
    req_queued,
    \* control
    epc,                    \* where the worker thread is in Executor::run
    cur,                    \* the task the drain is visiting
    cursor,                 \* drain's local `next`
    finished,               \* what the poll thunk returned
    rstack,                 \* call stack of the reactor functions in the post-drain hook
    rret,                   \* the value the last reactor function returned
    held,                   \* TaskRefs user code got from prepare_task and has not spawned
    \* history
    ev,                     \* what the last step did
    drainSet,               \* the tasks linked in the run queue when the drain began
    visited,                \* the tasks visited by the drain, in order
    enqDuring               \* the tasks enqueued since the drain began

hdrVars == <<executor_queue_next, task_pool_queue_next, executor, poll_fn,
             task_pool_ptr, task_pool_finalizer_fn>>
futVars == <<future, req>>
poolVars == <<exhaust_list_cnt, free_list_head>>
execVars == <<task_queue_head, spawned>>
ringVars == <<sq, kern, cq>>
ctlVars == <<epc, cur, cursor, finished>>
reactVars == <<rstack, rret>>
histVars == <<drainSet, visited, enqDuring>>

vars == <<executor_queue_next, task_pool_queue_next, executor, poll_fn,
          task_pool_ptr, task_pool_finalizer_fn, future, req,
          exhaust_list_cnt, free_list_head, task_queue_head, spawned,
          sq, kern, cq, req_queued, epc, cur, cursor, finished,
          rstack, rret, held, ev, drainSet, visited, enqDuring>>

\* ----------------------------------------------------------------- helpers
None == <<>>
Some(v) == <<v>>

Ev(op, t, res, linked) == [op |-> op, t |-> t, res |-> res, linked |-> linked]

\* The nodes of the chain that starts at h and follows nxt.
RECURSIVE ChainFrom(_, _, _)
ChainFrom(h, nxt, seen) ==
    IF h = NULL \/ h \in seen THEN seen
    ELSE ChainFrom(nxt[h], nxt, seen \cup {h})

Chain(h, nxt) == ChainFrom(h, nxt, {})

\* The chain as a sequence, head first (cut where it would repeat a node).
RECURSIVE ChainSeqFrom(_, _, _)
ChainSeqFrom(h, nxt, acc) ==
    IF h = NULL \/ (\E i \in 1..Len(acc) : acc[i] = h) THEN acc
    ELSE ChainSeqFrom(nxt[h], nxt, Append(acc, h))

ChainSeq(h, nxt) == ChainSeqFrom(h, nxt, <<>>)

EmptyFuture == [st |-> "uninit", ops |-> 0, awaiting |-> FALSE]
EmptyReq == [return_val |-> None, waker |-> FALSE]
OkRet(t, e) == [ok |-> TRUE, timeouts |-> t, etime |-> e]
ErrRet == [ok |-> FALSE, timeouts |-> 0, etime |-> FALSE]

InitOf(f, r) ==
    /\ executor_queue_next = [t \in Slots |-> NULL]
    /\ task_pool_queue_next = [t \in Slots |-> NULL]
    /\ executor = [t \in Slots |-> FALSE]
    /\ poll_fn = [t \in Slots |-> FALSE]
    /\ task_pool_ptr = [t \in Slots |-> FALSE]
    /\ task_pool_finalizer_fn = [t \in Slots |-> FALSE]
    /\ future = f
    /\ req = r
    /\ exhaust_list_cnt = 0
    /\ free_list_head = NULL
    /\ task_queue_head = NULL
    /\ spawned = 0
    /\ sq = <<>>
    /\ kern = [u \in 0..NSlots |-> 0]
    /\ cq = <<>>
    /\ req_queued = 0
    /\ epc = "user"
    /\ cur = NULL
    /\ cursor = NULL
    /\ finished = FALSE
    /\ rstack = <<>>
    /\ rret = OkRet(0, FALSE)
    /\ held = {}
    /\ ev = Ev("init", NULL, "-", FALSE)
    /\ drainSet = {}
    /\ visited = <<>>
    /\ enqDuring = {}

Init == InitOf([t \in Slots |-> EmptyFuture], [t \in Slots |-> EmptyReq])

\* ------------------------------------------------------- intrusive queues
\* Whether t is linked in the run queue: in the chain of the head, or in the
\* chain the running drain has detached and not yet visited.
Linked(t) ==
    t \in Chain(task_queue_head, executor_queue_next)
         \cup Chain(cursor, executor_queue_next)

InFreeList(t) == t \in Chain(free_list_head, task_pool_queue_next)

\* Faulty variant: the task is linked behind the last node of the chain.
TaskQueueEnqueue_Tail(t) ==
    IF task_queue_head = NULL
    THEN /\ task_queue_head' = t
         /\ executor_queue_next' = [executor_queue_next EXCEPT ![t] = NULL]
    ELSE /\ UNCHANGED task_queue_head
         /\ executor_queue_next' =
               [u \in DOMAIN executor_queue_next |->
                   IF u = t THEN NULL
                   ELSE IF u \in Chain(task_queue_head, executor_queue_next)
                           /\ executor_queue_next[u] = NULL
                        THEN t
                        ELSE executor_queue_next[u]]

\* TaskQueue::enqueue: the link of the task takes the old head.
TaskQueueEnqueue(t) ==
    /\ task_queue_head' = t
    /\ executor_queue_next' = [executor_queue_next EXCEPT ![t] = task_queue_head]

\* Executor::enqueue: install the executor in the header, then link the task.
Enqueue(t) ==
    /\ executor' = [executor EXCEPT ![t] = TRUE]
    /\ TaskQueueEnqueue(t)
    /\ enqDuring' = enqDuring \cup {t}

\* TaskFreeList::enqueue, as TaskPool::finalize calls it.
TaskFreeListEnqueue(t) ==
    /\ free_list_head' = t
    /\ task_pool_queue_next' = [task_pool_queue_next EXCEPT ![t] = free_list_head]

\* ---------------------------------------------------------------- TaskPool
\* Faulty variant: a finalized slot is preferred to an unused one.
PrepareSlot_FreeFirst ==
    IF free_list_head # NULL THEN free_list_head
    ELSE IF exhaust_list_cnt < NSlots THEN exhaust_list_cnt + 1
    ELSE NULL

\* The storage prepare_task picks: the next unused slot while the high-water
\* index is below N, else the head of the free list (NULL: none to pick).
PrepareSlot ==
    IF exhaust_list_cnt < NSlots THEN exhaust_list_cnt + 1
    ELSE free_list_head

\* TaskFreeList::dequeue on an empty list builds a TaskRef from the null head
\* (NonNull::new_unchecked(null)): undefined behaviour. The Option<TaskRef>
\* it yields is read as None where the null niche is tested, and the null
\* header is dereferenced (or the debug precondition check aborts) elsewhere.
DequeueEmptyOutcomes == {"none", "crash"}

\* Faulty variant: the free list's head is handed out but stays the head.
PrepareClaim_NoPop(s) ==
    IF exhaust_list_cnt < NSlots
    THEN /\ exhaust_list_cnt' = exhaust_list_cnt + 1
         /\ UNCHANGED free_list_head
    ELSE UNCHANGED <<free_list_head, exhaust_list_cnt>>

\* The pool side of a successful prepare_task that hands out slot s.
PrepareClaim(s) ==
    IF exhaust_list_cnt < NSlots
    THEN /\ exhaust_list_cnt' = exhaust_list_cnt + 1
         /\ UNCHANGED free_list_head
    ELSE \* TaskFreeList::dequeue: the head moves on, the popped link stays
         /\ free_list_head' = task_pool_queue_next[s]
         /\ UNCHANGED exhaust_list_cnt

\* Faulty variant: the pool pointer is not installed.
PrepareInstall_NoPool(s, ops) ==
    /\ future' = [future EXCEPT ![s] = [st |-> "live", ops |-> ops, awaiting |-> FALSE]]
    /\ req' = [req EXCEPT ![s] = EmptyReq]
    /\ poll_fn' = [poll_fn EXCEPT ![s] = TRUE]
    /\ UNCHANGED task_pool_ptr
    /\ task_pool_finalizer_fn' = [task_pool_finalizer_fn EXCEPT ![s] = TRUE]

\* The storage side: the future is written, the header fields installed.
PrepareInstall(s, ops) ==
    /\ future' = [future EXCEPT ![s] = [st |-> "live", ops |-> ops, awaiting |-> FALSE]]
    /\ req' = [req EXCEPT ![s] = EmptyReq]
    /\ poll_fn' = [poll_fn EXCEPT ![s] = TRUE]
    /\ task_pool_ptr' = [task_pool_ptr EXCEPT ![s] = TRUE]
    /\ task_pool_finalizer_fn' = [task_pool_finalizer_fn EXCEPT ![s] = TRUE]

\* Executor::spawn_task: count the task, then enqueue it.
SpawnTask(t) ==
    /\ spawned' = spawned + 1
    /\ Enqueue(t)

\* --------------------------------------------------------------- user code
\* User code outside Executor::run calls the #[task] function: prepare_task.
UserPrepare ==
    /\ epc = "user"
    /\ \/ /\ PrepareSlot # NULL
          /\ \E ops \in 0..MaxOps :
                /\ PrepareClaim(PrepareSlot)
                /\ PrepareInstall(PrepareSlot, ops)
          /\ held' = held \cup {PrepareSlot}
          /\ ev' = Ev("prepare", PrepareSlot, "some", FALSE)
          /\ UNCHANGED epc
       \/ /\ PrepareSlot = NULL
          /\ \E out \in DequeueEmptyOutcomes :
                /\ epc' = IF out = "crash" THEN "crashed" ELSE epc
                /\ ev' = Ev("prepare", NULL, out, FALSE)
          /\ UNCHANGED <<future, req, poll_fn, task_pool_ptr, task_pool_finalizer_fn,
                         exhaust_list_cnt, free_list_head, held>>
    /\ UNCHANGED <<executor_queue_next, task_pool_queue_next, executor,
                   execVars, ringVars, req_queued, cur, cursor, finished,
                   reactVars, histVars>>

\* User code hands a prepared TaskRef to PerThreadExecutor::spawn_task.
UserSpawn ==
    /\ epc = "user"
    /\ \E t \in held :
          /\ SpawnTask(t)
          /\ held' = held \ {t}
          /\ ev' = Ev("spawn", t, "-", Linked(t))
    /\ UNCHANGED <<task_pool_queue_next, poll_fn, task_pool_ptr, task_pool_finalizer_fn,
                   futVars, poolVars, ringVars, req_queued, ctlVars, reactVars,
                   drainSet, visited>>

\* ------------------------------------------------------------ Executor::run
\* User code calls PerThreadExecutor::run(Some(hook)).
RunCall ==
    /\ epc = "user"
    /\ epc' = "drain"
    /\ ev' = Ev("run", NULL, "-", FALSE)
    /\ UNCHANGED <<hdrVars, futVars, poolVars, execVars, ringVars, req_queued,
                   cur, cursor, finished, reactVars, held, histVars>>

\* Faulty variant: drain walks the chain without detaching it from the head.
DrainStart_NoSwap ==
    /\ epc = "drain"
    /\ cursor' = task_queue_head
    /\ epc' = "walk"
    /\ drainSet' = Chain(task_queue_head, executor_queue_next)
    /\ visited' = <<>>
    /\ enqDuring' = {}
    /\ ev' = Ev("drain_start", NULL, "-", FALSE)
    /\ UNCHANGED <<hdrVars, futVars, poolVars, execVars, ringVars, req_queued,
                   cur, finished, reactVars, held>>

\* TaskQueue::drain, first line: the head is swapped with null.
DrainStart ==
    /\ epc = "drain"
    /\ cursor' = task_queue_head
    /\ task_queue_head' = NULL
    /\ epc' = "walk"
    /\ drainSet' = Chain(task_queue_head, executor_queue_next)
    /\ visited' = <<>>
    /\ enqDuring' = {}
    /\ ev' = Ev("drain_start", NULL, "-", FALSE)
    /\ UNCHANGED <<hdrVars, futVars, poolVars, spawned, ringVars, req_queued,
                   cur, finished, reactVars, held>>

\* Faulty variant: the link is cleared before it is read: the walk ends after one node.
DrainNext_Cleared(t) == NULL

\* Faulty variant: at the end of the detached chain the walk goes on with what has
\* been enqueued meanwhile.
DrainNext_Refill(t) ==
    IF executor_queue_next[t] = NULL THEN task_queue_head ELSE executor_queue_next[t]

\* `replace(&mut next, task.header().executor_queue_item.next.get().replace(None))`:
\* the node drain goes to after t is the one t's link names.
DrainNext(t) == executor_queue_next[t]

\* One turn of drain's while loop: take the node, read and clear its link,
\* and call the visitor, which looks up the poll thunk.
DrainVisit ==
    /\ epc = "walk"
    /\ cursor # NULL
    /\ cur' = cursor
    /\ cursor' = DrainNext(cursor)
    /\ executor_queue_next' = [executor_queue_next EXCEPT ![cursor] = NULL]
    /\ epc' = IF poll_fn[cursor] THEN "poll" ELSE "walk"
    /\ finished' = FALSE
    /\ visited' = Append(visited, cursor)
    /\ ev' = Ev("visit", cursor, "-", FALSE)
    /\ UNCHANGED <<task_pool_queue_next, executor, poll_fn, task_pool_ptr,
                   task_pool_finalizer_fn, futVars, poolVars, execVars, ringVars,
                   req_queued, reactVars, held, drainSet, enqDuring>>

\* Faulty variant: the exit check comes before the hook, which is skipped when
\* no task is live.
DrainEnd_ExitFirst ==
    /\ epc = "walk"
    /\ cursor = NULL
    /\ epc' = IF spawned = 0 THEN "done" ELSE "hook"
    /\ cur' = NULL
    /\ rstack' = IF spawned = 0 THEN rstack
                 ELSE << [fn |-> "run", pc |-> "call_flush", want |-> 0, timeouts |-> 0,
                          etime |-> FALSE, collected |-> 0, batch |-> 0,
                          pushed |-> 0, flushed |-> 0, clean |-> FALSE,
                          seen |-> 0, seenEtime |-> FALSE] >>
    /\ ev' = Ev("drain_end", NULL, "-", FALSE)
    /\ UNCHANGED <<hdrVars, futVars, poolVars, execVars, ringVars, req_queued,
                   cursor, finished, rret, held, histVars>>

\* The loop ends at the null terminator; run calls the post-drain hook,
\* which is PerThreadReactor::run(1000) (the #[entry] wrapper).
DrainEnd ==
    /\ epc = "walk"
    /\ cursor = NULL
    /\ epc' = "hook"
    /\ cur' = NULL
    /\ rstack' = << [fn |-> "run", pc |-> "call_flush", want |-> 0, timeouts |-> 0,
                     etime |-> FALSE, collected |-> 0, batch |-> 0,
                     pushed |-> 0, flushed |-> 0, clean |-> FALSE,
                     seen |-> 0, seenEtime |-> FALSE] >>
    /\ ev' = Ev("drain_end", NULL, "-", FALSE)
    /\ UNCHANGED <<hdrVars, futVars, poolVars, execVars, ringVars, req_queued,
                   cursor, finished, rret, held, histVars>>


\* ----------------------------------------------------- the stored future
\* Faulty variant: the wake is lost.
Wake_Lost(t) == UNCHANGED <<executor, task_queue_head, executor_queue_next, enqDuring>>

\* Faulty variant: the task is enqueued whether or not its header records an
\* executor.
Wake_Unrecorded(t) == Enqueue(t)

\* TaskRef::enqueue_self, reached from the waker vtable's wake: re-enqueue the
\* task on the executor its header records; nothing when there is none.
Wake(t) ==
    IF executor[t]
    THEN Enqueue(t)
    ELSE UNCHANGED <<executor, task_queue_head, executor_queue_next, enqDuring>>

\* Faulty variant: the push never fails.
PushFails_Never == FALSE

\* Reactor::submit's push: it fails when the submission queue is full.
PushFails == Len(sq) >= RingSize

\* Faulty variant: the request is stamped with user-data 0.
UserData_Null(t) == NULL

\* Reactor::submit, `user_data(req as *mut _ as u64)`: the address of the
\* request, which lives in the future of task t; a reference is never null.
UserData(t) == t

\* Faulty variant: submit does not count the request.
SubmitCount_NotCounted == req_queued

\* Reactor::submit's counting: the counter is bumped before the push is tried.
SubmitCount == req_queued + 1

\* `-return_val` on i32: the negation of i32::MIN overflows; a build with
\* overflow checks panics (None), one without wraps to i32::MIN.
NegI32(r) == IF r = MinI32 THEN {None, Some(MinI32)} ELSE {Some(-r)}

\* Faulty variant: the raw result is taken as the error code.
PollOutcomes_RawCode(rv) ==
    IF rv = None THEN {[kind |-> "Pending", val |-> 0]}
    ELSE IF rv[1] < 0 THEN {[kind |-> "Err", val |-> rv[1]]}
    ELSE {[kind |-> "Ok", val |-> rv[1]]}

\* What the poll of an operation future yields for the return slot rv:
\* Ready(Err(from_raw_os_error(-r))) for r < 0, Ready(Ok(r)) otherwise, and
\* Pending for an empty slot.
PollOutcomes(rv) ==
    IF rv = None THEN {[kind |-> "Pending", val |-> 0]}
    ELSE IF rv[1] < 0
    THEN {IF n = None THEN [kind |-> "panic", val |-> 0]
                      ELSE [kind |-> "Err", val |-> n[1]] : n \in NegI32(rv[1])}
    ELSE {[kind |-> "Ok", val |-> rv[1]]}

\* The future awaits an operation whose return slot is populated: the
\* operation future reports ready and the task's code goes on.
FutOpReady ==
    /\ epc = "poll"
    /\ future[cur].st = "live"
    /\ future[cur].awaiting
    /\ req[cur].return_val # None
    /\ \E out \in PollOutcomes(req[cur].return_val) :
          IF out.kind = "panic"
          THEN /\ epc' = "crashed"
               /\ ev' = Ev("op_ready", cur, "panic", FALSE)
               /\ UNCHANGED <<future, req>>
          ELSE /\ future' = [future EXCEPT ![cur].awaiting = FALSE]
               /\ req' = [req EXCEPT ![cur] = EmptyReq]
               /\ ev' = Ev("op_ready", cur, IF out.kind = "Err" THEN "err" ELSE "ok", FALSE)
               /\ UNCHANGED epc
    /\ UNCHANGED <<hdrVars, poolVars, execVars, ringVars, req_queued, cur, cursor,
                   finished, reactVars, held, histVars>>

\* The poll of an operation future whose return slot is empty (a new one the
\* task starts to await, or the one it awaits already): the waker is stored,
\* the request submitted, a failed push answered by waking the own task; the
\* poll reports pending and with it the task's future does.
FutOpPending ==
    /\ epc = "poll"
    /\ future[cur].st = "live"
    /\ \/ future[cur].awaiting /\ req[cur].return_val = None
       \/ ~future[cur].awaiting /\ future[cur].ops > 0
    /\ PushFails => req_queued < MaxQueued
    /\ future' = [future EXCEPT ![cur].awaiting = TRUE,
                                ![cur].ops = IF future[cur].awaiting THEN @ ELSE @ - 1]
    /\ req' = [req EXCEPT ![cur] = [return_val |-> None, waker |-> TRUE]]
    /\ req_queued' = SubmitCount
    /\ IF PushFails
       THEN /\ UNCHANGED sq
            /\ Wake(cur)
            /\ ev' = Ev("op_pending", cur, "push_failed", Linked(cur))
       ELSE /\ sq' = Append(sq, UserData(cur))
            /\ UNCHANGED <<executor, task_queue_head, executor_queue_next, enqDuring>>
            /\ ev' = Ev("op_pending", cur, "pushed", FALSE)
    /\ epc' = "ret"
    /\ finished' = FALSE
    /\ UNCHANGED <<task_pool_queue_next, poll_fn, task_pool_ptr, task_pool_finalizer_fn,
                   poolVars, spawned, kern, cq, cur, cursor, reactVars, held,
                   drainSet, visited>>

\* The task's code calls a #[task] function and spawns what it returns
\* (examples/tcpecho entry_thread1); on none it goes on.
FutSpawnChild ==
    /\ epc = "poll"
    /\ future[cur].st = "live"
    /\ ~future[cur].awaiting
    /\ \/ /\ PrepareSlot # NULL
          /\ \E ops \in 0..MaxOps :
                /\ PrepareClaim(PrepareSlot)
                /\ PrepareInstall(PrepareSlot, ops)
          /\ SpawnTask(PrepareSlot)
          /\ ev' = Ev("child", PrepareSlot, "some", Linked(PrepareSlot))
          /\ UNCHANGED epc
       \/ /\ PrepareSlot = NULL
          /\ \E out \in DequeueEmptyOutcomes :
                /\ epc' = IF out = "crash" THEN "crashed" ELSE epc
                /\ ev' = Ev("child", NULL, out, FALSE)
          /\ UNCHANGED <<executor_queue_next, executor, poll_fn, task_pool_ptr,
                         task_pool_finalizer_fn, futVars, poolVars, execVars, enqDuring>>
    /\ UNCHANGED <<task_pool_queue_next, ringVars, req_queued, cur, cursor, finished,
                   reactVars, held, drainSet, visited>>

\* The task's code runs to its end: TaskStorage::poll drops the future in
\* place and returns true.
FutReady ==
    /\ epc = "poll"
    /\ future[cur].st = "live"
    /\ ~future[cur].awaiting
    /\ future[cur].ops = 0
    /\ future' = [future EXCEPT ![cur].st = "dropped"]
    /\ finished' = TRUE
    /\ epc' = "ret"
    /\ ev' = Ev("fut_ready", cur, "ready", FALSE)
    /\ UNCHANGED <<hdrVars, req, poolVars, execVars, ringVars, req_queued,
                   cur, cursor, reactVars, held, histVars>>

\* TaskPool::finalize, `task_pool.as_ref().unwrap()`: a thunk called with a
\* null pool pointer panics.
FinalizePanics(t) == task_pool_finalizer_fn[t] /\ ~task_pool_ptr[t]

\* TaskPool::finalize, called through the header's finalizer thunk.
Finalize(t) ==
    IF task_pool_finalizer_fn[t] /\ ~FinalizePanics(t)
    THEN TaskFreeListEnqueue(t)
    ELSE UNCHANGED <<free_list_head, task_pool_queue_next>>

\* Faulty variant: the counter is decremented after every poll.
CountAfterPoll_Always(fin) == spawned - 1

\* The live counter after a poll that returned `fin`.
CountAfterPoll(fin) == IF fin THEN spawned - 1 ELSE spawned

\* The rest of the visitor in Executor::run, after the poll thunk returned:
\* a finished task is finalized and the live counter decremented.
VisitEnd ==
    /\ epc = "ret"
    /\ IF finished
       THEN Finalize(cur)
       ELSE UNCHANGED <<free_list_head, task_pool_queue_next>>
    /\ spawned' = CountAfterPoll(finished)
    /\ epc' = IF finished /\ FinalizePanics(cur) THEN "crashed" ELSE "walk"
    /\ finished' = FALSE
    /\ ev' = Ev("visit_end", cur, IF finished THEN "ready" ELSE "pending", FALSE)
    /\ UNCHANGED <<executor_queue_next, executor, poll_fn, task_pool_ptr,
                   task_pool_finalizer_fn, futVars, exhaust_list_cnt, task_queue_head,
                   ringVars, req_queued, cur, cursor, reactVars, held, histVars>>

\* Faulty variant: run exits when the run queue is empty.
RunExits_QueueEmpty == task_queue_head = NULL

\* The post-drain hook returned; run looks at the live counter.
RunExits == spawned = 0

HookReturn ==
    /\ epc = "hook"
    /\ rstack = <<>>
    /\ epc' = "check"
    /\ ev' = Ev("hook_end", NULL, IF rret.ok THEN "ok" ELSE "err", FALSE)
    /\ UNCHANGED <<hdrVars, futVars, poolVars, execVars, ringVars, req_queued,
                   cur, cursor, finished, reactVars, held, histVars>>

\* `if *self.spawned.get() == 0 { break }`: the loop goes round ...
RunLoop ==
    /\ epc = "check"
    /\ ~RunExits
    /\ epc' = "drain"
    /\ ev' = Ev("loop", NULL, "-", FALSE)
    /\ UNCHANGED <<hdrVars, futVars, poolVars, execVars, ringVars, req_queued,
                   cur, cursor, finished, reactVars, held, histVars>>

\* ... or Executor::run returns (to main, which ends).
RunReturn ==
    /\ epc = "check"
    /\ RunExits
    /\ epc' = "done"
    /\ ev' = Ev("return", NULL, "-", FALSE)
    /\ UNCHANGED <<hdrVars, futVars, poolVars, execVars, ringVars, req_queued,
                   cur, cursor, finished, reactVars, held, histVars>>


\* ------------------------------------------------------------------ Reactor
\* The reactor functions run on a call stack of frames; the top frame is the
\* running function, pc its position.
Frame(fn, pc, want, timeouts, etime) ==
    [fn |-> fn, pc |-> pc, want |-> want, timeouts |-> timeouts, etime |-> etime,
     collected |-> 0, batch |-> 0,
     \* history of a run_for_ns call: markers pushed, flushes that returned
     \* Ok, and whether it began with an empty completion queue
     pushed |-> 0, flushed |-> 0, clean |-> FALSE,
     \* history of a flush call: the marker completions dispatched since it
     \* was called, and whether one of them carried -ETIME
     seen |-> 0, seenEtime |-> FALSE]

Top == rstack[Len(rstack)]
At(fn, pc) == epc = "hook" /\ rstack # <<>> /\ Top.fn = fn /\ Top.pc = pc
SetTop(f) == [rstack EXCEPT ![Len(rstack)] = f]
Call(backpc, callee) == Append(SetTop([Top EXCEPT !.pc = backpc]), callee)
Popped == SubSeq(rstack, 1, Len(rstack) - 1)

\* Timeout markers alive in the ring.
Markers(q) == Cardinality({i \in 1..Len(q) : q[i] = NULL})
CqMarkers == Cardinality({i \in 1..Len(cq) : cq[i][1] = NULL})
MarkersAlive == Markers(sq) + kern[NULL] + CqMarkers

\* What stays as it is in a step that only moves the reactor's control.
taskSide == <<hdrVars, futVars, poolVars, execVars, ctlVars, held, histVars>>

\* Reactor::requires_reaping
requires_reaping == req_queued > 0

\* Reactor::run, `self.flush(0, 0, false);`
RunCallFlush ==
    /\ At("run", "call_flush")
    /\ rstack' = Call("after_flush", Frame("flush", "call_fsub", 0, 0, FALSE))
    /\ ev' = Ev("reactor", NULL, "run:flush", FALSE)
    /\ UNCHANGED <<taskSide, ringVars, req_queued, rret>>

\* Reactor::run, the result of flush is dropped; then
\* `if !self.requires_reaping() { self.run_for_ns(ns) } else { Ok(()) }`
RunAfterFlush ==
    /\ At("run", "after_flush")
    /\ IF ~requires_reaping
       THEN /\ rstack' = Call("after_rfn",
                              [Frame("run_for_ns", "while", 0, 0, FALSE)
                                  EXCEPT !.clean = (cq = <<>>)])
            /\ UNCHANGED rret
            /\ ev' = Ev("reactor", NULL, "run:run_for_ns", FALSE)
       ELSE /\ rstack' = Popped
            /\ rret' = OkRet(0, FALSE)
            /\ ev' = Ev("reactor", NULL, "run:ok", FALSE)
    /\ UNCHANGED <<taskSide, ringVars, req_queued>>

\* Reactor::run returns what run_for_ns returned.
RunAfterRfn ==
    /\ At("run", "after_rfn")
    /\ rstack' = Popped
    /\ ev' = Ev("reactor", NULL, "run:ret", FALSE)
    /\ UNCHANGED <<taskSide, ringVars, req_queued, rret>>

\* Reactor::flush, `self.flush_submissions(want, timeouts, etime)?;`
FlushCallFsub ==
    /\ At("flush", "call_fsub")
    /\ rstack' = Call("after_fsub",
                      Frame("flush_submissions", "enter", Top.want, Top.timeouts, Top.etime))
    /\ ev' = Ev("reactor", NULL, "flush:fsub", FALSE)
    /\ UNCHANGED <<taskSide, ringVars, req_queued, rret>>

\* Reactor::flush, after flush_submissions: an error is returned; its Ok value
\* is dropped and `self.flush_completions(0, timeouts, etime)` gets the
\* arguments of flush.
FlushAfterFsub ==
    /\ At("flush", "after_fsub")
    /\ IF rret.ok
       THEN /\ rstack' = Call("after_fcomp",
                              Frame("flush_completions", "loop", 0, Top.timeouts, Top.etime))
            /\ ev' = Ev("reactor", NULL, "flush:fcomp", FALSE)
       ELSE /\ rstack' = Popped
            /\ ev' = Ev("reactor", NULL, "flush:err", FALSE)
    /\ UNCHANGED <<taskSide, ringVars, req_queued, rret>>

FlushAfterFcomp ==
    /\ At("flush", "after_fcomp")
    /\ rstack' = Popped
    /\ ev' = Ev("reactor", NULL, "flush:ret", FALSE)
    /\ UNCHANGED <<taskSide, ringVars, req_queued, rret>>

\* The kernel takes the entries of the submission queue (io_uring_enter).
KernTake == [u \in DOMAIN kern |-> kern[u] + Cardinality({i \in 1..Len(sq) : sq[i] = u})]

\* Faulty variant: the kernel takes nothing from the submission queue.
FsubSubmit_NoTake ==
    /\ At("flush_submissions", "enter")
    /\ rstack' = SetTop([Top EXCEPT !.pc = "wait"])
    /\ ev' = Ev("reactor", NULL, "fsub:submit", FALSE)
    /\ UNCHANGED <<taskSide, ringVars, req_queued, rret>>

\* flush_submissions, submit_and_wait(want): the entries go to the kernel.
FsubSubmit ==
    /\ At("flush_submissions", "enter")
    /\ kern' = KernTake
    /\ sq' = <<>>
    /\ rstack' = SetTop([Top EXCEPT !.pc = "wait"])
    /\ ev' = Ev("reactor", NULL, "fsub:submit", FALSE)
    /\ UNCHANGED <<taskSide, cq, req_queued, rret>>

\* Faulty variant: submit_and_wait does not wait for `want` completions.
FsubOk_NoWait ==
    /\ At("flush_submissions", "wait")
    /\ rret' = OkRet(Top.timeouts, Top.etime)
    /\ rstack' = Popped
    /\ ev' = Ev("reactor", NULL, "fsub:ok", FALSE)
    /\ UNCHANGED <<taskSide, ringVars, req_queued>>

\* submit_and_wait returns once `want` completions are in the completion
\* queue; flush_submissions returns Ok((timeouts, etime)).
FsubOk ==
    /\ At("flush_submissions", "wait")
    /\ Len(cq) >= Top.want
    /\ rret' = OkRet(Top.timeouts, Top.etime)
    /\ rstack' = Popped
    /\ ev' = Ev("reactor", NULL, "fsub:ok", FALSE)
    /\ UNCHANGED <<taskSide, ringVars, req_queued>>

\* Faulty variant: EINTR is returned as an error.
FsubEintr_GivesUp ==
    /\ \/ At("flush_submissions", "enter")
       \/ At("flush_submissions", "wait")
    /\ rret' = ErrRet
    /\ rstack' = Popped
    /\ ev' = Ev("reactor", NULL, "fsub:EINTR", FALSE)
    /\ UNCHANGED <<taskSide, ringVars, req_queued>>

\* submit_and_wait fails with EINTR: `continue`.
FsubEintr ==
    /\ \/ At("flush_submissions", "enter")
       \/ At("flush_submissions", "wait")
    /\ rstack' = SetTop([Top EXCEPT !.pc = "enter"])
    /\ ev' = Ev("reactor", NULL, "fsub:EINTR", FALSE)
    /\ UNCHANGED <<taskSide, ringVars, req_queued, rret>>

\* submit_and_wait fails with EBUSY or EAGAIN:
\* `(timeouts, etime) = self.flush_completions(1, timeouts, etime)?; continue`.
FsubEbusy ==
    /\ At("flush_submissions", "enter")
    /\ rstack' = Call("after_busy",
                      Frame("flush_completions", "loop", 1, Top.timeouts, Top.etime))
    /\ ev' = Ev("reactor", NULL, "fsub:EBUSY", FALSE)
    /\ UNCHANGED <<taskSide, ringVars, req_queued, rret>>

FsubAfterBusy ==
    /\ At("flush_submissions", "after_busy")
    /\ IF rret.ok
       THEN rstack' = SetTop([Top EXCEPT !.pc = "enter", !.timeouts = rret.timeouts,
                                         !.etime = rret.etime])
       ELSE rstack' = Popped
    /\ ev' = Ev("reactor", NULL, "fsub:retry", FALSE)
    /\ UNCHANGED <<taskSide, ringVars, req_queued, rret>>

\* submit_and_wait fails with another error: `return Err(err)`. (The guard
\* keeps the timeout markers such returns leave behind bounded.)
FsubErr ==
    /\ At("flush_submissions", "enter")
    /\ MarkersAlive <= MaxStray
    /\ rret' = ErrRet
    /\ rstack' = Popped
    /\ ev' = Ev("reactor", NULL, "fsub:err", FALSE)
    /\ UNCHANGED <<taskSide, ringVars, req_queued>>

\* flush_completions, `for cqe in mutself.completion()`: the iterator takes
\* what the completion queue holds now.
FcompLoop ==
    /\ At("flush_completions", "loop")
    /\ rstack' = SetTop([Top EXCEPT !.pc = "iter", !.batch = Len(cq)])
    /\ ev' = Ev("reactor", NULL, "fcomp:loop", FALSE)
    /\ UNCHANGED <<taskSide, ringVars, req_queued, rret>>

\* The call stack after a marker's completion was dispatched:
\* the flush calls on the stack have seen one more.
SawMarker(stack, e) ==
    [i \in 1..Len(stack) |->
        IF stack[i].fn = "flush"
        THEN [stack[i] EXCEPT !.seen = @ + 1, !.seenEtime = @ \/ e]
        ELSE stack[i]]

\* The local timeout counter (usize, wrapping) after a timeout marker.
TimeoutsAfterMarker(n) == n - 1

\* One completion with user-data 0: a timeout marker.
FcompMarker ==
    /\ At("flush_completions", "iter")
    /\ Top.batch > 0
    /\ Head(cq)[1] = NULL
    /\ cq' = Tail(cq)
    /\ rstack' = SawMarker(SetTop([Top EXCEPT !.batch = @ - 1,
                                              !.timeouts = TimeoutsAfterMarker(@),
                                              !.etime = IF -Head(cq)[2] = ETIME
                                                        THEN TRUE ELSE @]),
                           -Head(cq)[2] = ETIME)
    /\ ev' = Ev("marker", NULL, "-", FALSE)
    /\ UNCHANGED <<taskSide, sq, kern, req_queued, rret>>

\* One completion whose user-data is a request: the result goes to the
\* request's return slot and the stored waker is invoked.
FcompDispatch ==
    /\ At("flush_completions", "iter")
    /\ Top.batch > 0
    /\ Head(cq)[1] # NULL
    /\ LET t == Head(cq)[1] IN
          /\ req' = [req EXCEPT ![t].return_val = Some(Head(cq)[2])]
          /\ Wake(t)
          /\ ev' = Ev("dispatch", t, "-", Linked(t))
    /\ cq' = Tail(cq)
    /\ rstack' = SetTop([Top EXCEPT !.batch = @ - 1, !.collected = @ + 1])
    /\ UNCHANGED <<task_pool_queue_next, poll_fn, task_pool_ptr, task_pool_finalizer_fn,
                   future, poolVars, spawned, ctlVars, held, drainSet, visited,
                   sq, kern, req_queued, rret>>

\* After the for loop: `*mutreq -= collected`, then return when
\* `collected >= want`, else loop. (A value below zero stands for the usize
\* that wrapped; the guard bounds how far it is followed.)
FcompCheck ==
    /\ At("flush_completions", "iter")
    /\ Top.batch = 0
    /\ req_queued - Top.collected >= -MaxUnder
    /\ req_queued' = req_queued - Top.collected
    /\ IF Top.collected >= Top.want
       THEN /\ rret' = OkRet(Top.timeouts, Top.etime)
            /\ rstack' = Popped
       ELSE /\ rstack' = SetTop([Top EXCEPT !.pc = "loop"])
            /\ UNCHANGED rret
    /\ ev' = Ev("reactor", NULL, "fcomp:check", FALSE)
    /\ UNCHANGED <<taskSide, ringVars>>


\* Faulty variant: the loop body is skipped.
RfnLoops_Never(f) == FALSE

\* run_for_ns, `while !etime`, on the frame's locals.
RfnLoops(f) == ~f.etime

\* run_for_ns, the body of `while !etime`: count a timeout marker and push it
\* with user-data 0, then `self.flush(1, timeouts, etime)?`.
RfnPush ==
    /\ At("run_for_ns", "while")
    /\ RfnLoops(Top)
    /\ ~PushFails
    /\ sq' = Append(sq, NULL)
    /\ rstack' = Append(SetTop([Top EXCEPT !.pc = "after_flush", !.pushed = @ + 1]),
                        Frame("flush", "call_fsub", 1, Top.timeouts + 1, Top.etime))
    /\ ev' = Ev("reactor", NULL, "rfn:push", FALSE)
    /\ UNCHANGED <<taskSide, kern, cq, req_queued, rret>>

\* The push fails: `self.flush_submissions(0, timeouts, etime)?`.
RfnPushFull ==
    /\ At("run_for_ns", "while")
    /\ RfnLoops(Top)
    /\ PushFails
    /\ rstack' = Call("after_force",
                      Frame("flush_submissions", "enter", 0, Top.timeouts + 1, Top.etime))
    /\ ev' = Ev("reactor", NULL, "rfn:full", FALSE)
    /\ UNCHANGED <<taskSide, ringVars, req_queued, rret>>

\* After the forced flush: `push(&timeout_op).unwrap()`, then the flush.
RfnAfterForce ==
    /\ At("run_for_ns", "after_force")
    /\ IF ~rret.ok
       THEN /\ rstack' = Popped
            /\ UNCHANGED <<sq, epc>>
       ELSE IF PushFails
       THEN /\ epc' = "crashed"
            /\ UNCHANGED <<sq, rstack>>
       ELSE /\ sq' = Append(sq, NULL)
            /\ rstack' = Append(SetTop([Top EXCEPT !.pc = "after_flush", !.pushed = @ + 1]),
                                Frame("flush", "call_fsub", 1, rret.timeouts, rret.etime))
            /\ UNCHANGED epc
    /\ ev' = Ev("reactor", NULL, "rfn:forced", FALSE)
    /\ UNCHANGED <<hdrVars, futVars, poolVars, execVars, cur, cursor, finished, held,
                   histVars, kern, cq, req_queued, rret>>

\* `(timeouts, etime) = self.flush(1, timeouts, etime)?`
RfnAfterFlush ==
    /\ At("run_for_ns", "after_flush")
    /\ IF rret.ok
       THEN rstack' = SetTop([Top EXCEPT !.pc = "while", !.timeouts = rret.timeouts,
                                         !.etime = rret.etime, !.flushed = @ + 1])
       ELSE rstack' = Popped
    /\ ev' = Ev("reactor", NULL, "rfn:flushed", FALSE)
    /\ UNCHANGED <<taskSide, ringVars, req_queued, rret>>

\* `while timeouts > 0 { (timeouts, etime) = self.flush_completions(0, ..)? }`
RfnTail ==
    /\ \/ At("run_for_ns", "while") /\ ~RfnLoops(Top)
       \/ At("run_for_ns", "after_tail")
    /\ LET n == IF Top.pc = "while" THEN Top.timeouts ELSE rret.timeouts
           e == IF Top.pc = "while" THEN Top.etime ELSE rret.etime
       IN  IF n # 0
           THEN /\ rstack' = Call("after_tail", Frame("flush_completions", "loop", 0, n, e))
                /\ UNCHANGED rret
           ELSE /\ rstack' = Popped
                /\ rret' = OkRet(0, FALSE)
    /\ ev' = Ev("reactor", NULL, "rfn:tail", FALSE)
    /\ UNCHANGED <<taskSide, ringVars, req_queued>>

\* ------------------------------------------------------------------- kernel
\* The kernel completes something it holds: a timeout marker expires with
\* -ETIME, a request ends with some result.
KernelCompleteWith(results) ==
    /\ epc \notin {"crashed", "done"}
    /\ \E u \in DOMAIN kern :
          /\ kern[u] > 0
          /\ kern' = [kern EXCEPT ![u] = @ - 1]
          /\ \E r \in (IF u = NULL THEN {-ETIME} ELSE results) :
                cq' = Append(cq, <<u, r>>)
          /\ ev' = Ev("kernel", u, "-", FALSE)
    /\ UNCHANGED <<taskSide, sq, req_queued, reactVars>>

KernelComplete == KernelCompleteWith(OpResults)

\* -------------------------------------------------------------------- spec
Next ==
    \/ UserPrepare \/ UserSpawn \/ RunCall
    \/ DrainStart \/ DrainVisit \/ DrainEnd
    \/ FutOpReady \/ FutOpPending \/ FutSpawnChild \/ FutReady \/ VisitEnd
    \/ HookReturn \/ RunLoop \/ RunReturn
    \/ RunCallFlush \/ RunAfterFlush \/ RunAfterRfn
    \/ FlushCallFsub \/ FlushAfterFsub \/ FlushAfterFcomp
    \/ FsubSubmit \/ FsubOk \/ FsubEintr \/ FsubEbusy \/ FsubAfterBusy \/ FsubErr
    \/ FcompLoop \/ FcompMarker \/ FcompDispatch \/ FcompCheck
    \/ RfnPush \/ RfnPushFull \/ RfnAfterForce \/ RfnAfterFlush \/ RfnTail
    \/ KernelComplete

Spec == Init /\ [][Next]_vars

\* ------------------------------------------------ the nop scenario (#[entry])
\* The #[entry] wrapper: one task is prepared, whose future awaits yield_now()
\* (one Nop request) and ends; it is spawned; Executor::run is called with
\* PerThreadReactor::run(1000) as the hook. The kernel completes a Nop with 0
\* and fails no submit_and_wait but with EINTR.
NopResult == 0

NopPrepare ==
    /\ epc = "user"
    /\ exhaust_list_cnt = 0
    /\ PrepareClaim(PrepareSlot)
    /\ PrepareInstall(PrepareSlot, 1)
    /\ held' = held \cup {PrepareSlot}
    /\ ev' = Ev("prepare", PrepareSlot, "some", FALSE)
    /\ UNCHANGED <<executor_queue_next, task_pool_queue_next, executor,
                   execVars, ringVars, req_queued, ctlVars, reactVars, histVars>>

NopRunCall == spawned = 1 /\ RunCall

NopKernelComplete == KernelCompleteWith({NopResult})

NopWorker ==
    \/ NopPrepare \/ UserSpawn \/ NopRunCall
    \/ DrainStart \/ DrainVisit \/ DrainEnd
    \/ FutOpReady \/ FutOpPending \/ FutReady \/ VisitEnd
    \/ HookReturn \/ RunLoop \/ RunReturn
    \/ RunCallFlush \/ RunAfterFlush \/ RunAfterRfn
    \/ FlushCallFsub \/ FlushAfterFsub \/ FlushAfterFcomp
    \/ FsubSubmit
    \/ FcompLoop \/ FcompMarker \/ FcompDispatch \/ FcompCheck
    \/ RfnPush \/ RfnAfterFlush \/ RfnTail

NextNop == NopWorker \/ FsubOk \/ FsubEintr \/ NopKernelComplete

\* The worker thread keeps running, the kernel completes what it holds, and
\* a wait that can return is not interrupted for ever.
SpecNop ==
    /\ Init /\ [][NextNop]_vars
    /\ WF_vars(NopWorker)
    /\ WF_vars(NopKernelComplete)
    /\ SF_vars(FsubOk)


\* ------------------------------------------- the poll of an operation future
\* The poll of one operation future on every value its return slot may hold:
\* task 1 is being polled and awaits an operation whose return slot is empty
\* or holds a kernel result.
SampleSpan == 18
MaxPolls == 2

I32Samples == {MinI32, MinI32 + 1, -ETIME, MaxI32} \cup (-SampleSpan..SampleSpan)
SlotValues == {None} \cup {Some(r) : r \in I32Samples}

InitPoll ==
    \E rv \in SlotValues :
        /\ InitOf([t \in Slots |-> IF t = 1
                                   THEN [st |-> "live", ops |-> 0, awaiting |-> TRUE]
                                   ELSE EmptyFuture],
                  [t \in Slots |-> IF t = 1
                                   THEN [return_val |-> rv, waker |-> rv # None]
                                   ELSE EmptyReq])

\* poll with a populated return slot, which it leaves as it is: the value is
\* translated into the ready value (count of polls in ev.t).
PollPopulated ==
    /\ req[1].return_val # None
    /\ ev.op = "polled" => (ev.t < MaxPolls /\ ev.res.kind # "panic")
    /\ \E out \in PollOutcomes(req[1].return_val) :
          ev' = Ev("polled", IF ev.op = "polled" THEN ev.t + 1 ELSE 1, out, FALSE)
    /\ UNCHANGED <<hdrVars, futVars, poolVars, execVars, ringVars, req_queued,
                   ctlVars, reactVars, held, histVars>>

\* poll with an empty return slot: the executor polls task 1.
PollEmpty ==
    /\ ev.op = "init"
    /\ req[1].return_val = None
    /\ epc' = "poll"
    /\ cur' = 1
    /\ executor' = [executor EXCEPT ![1] = TRUE]
    /\ ev' = Ev("visit", 1, "-", FALSE)
    /\ UNCHANGED <<executor_queue_next, task_pool_queue_next, poll_fn, task_pool_ptr,
                   task_pool_finalizer_fn, futVars, poolVars, execVars, ringVars,
                   req_queued, cursor, finished, reactVars, held, histVars>>

NextPoll == PollPopulated \/ PollEmpty \/ FutOpPending

SpecPoll == InitPoll /\ [][NextPoll]_vars

\* ------------------------------------------------ a task woken from outside
\* wake_task is public and a Waker may be cloned: code other than the
\* reactor (here the user's part of the post-drain hook) wakes a task that is
\* suspended on an operation in flight. At most MaxResubmit such wakes find
\* the request in the ring once.
MaxResubmit == 1

Copies(t) ==
    Cardinality({i \in 1..Len(sq) : sq[i] = t}) + kern[t]
        + Cardinality({i \in 1..Len(cq) : cq[i][1] = t})

ForeignWake ==
    /\ epc = "hook"
    /\ rstack = <<>>
    /\ \E t \in Slots :
          /\ future[t].st = "live" /\ future[t].awaiting /\ req[t].return_val = None
          /\ Copies(t) >= 1
          /\ Copies(t) <= MaxResubmit
          /\ ~Linked(t)
          /\ Wake(t)
          /\ ev' = Ev("foreign_wake", t, "-", Linked(t))
    /\ UNCHANGED <<task_pool_queue_next, poll_fn, task_pool_ptr, task_pool_finalizer_fn,
                   futVars, poolVars, spawned, ringVars, req_queued, ctlVars, reactVars,
                   held, drainSet, visited>>

NextWake == NextNop \/ ForeignWake

SpecWake == Init /\ [][NextWake]_vars


\* ------------------------------------------- replicated workers (#[entry])
\* #[entry(replicate = n)] starts n threads that run the same body, each on
\* its thread-local Executor and Reactor. Every worker calls the same
\* #[task] function once, spawns the task it gets (the task awaits nothing)
\* and runs its executor. The function's TaskPool is a `static mut POOL`
\* inside the function: one pool for the process. The workers' steps
\* interleave at the pool's reads and writes. In this specification the
\* thread-local variables (task_queue_head, spawned, sq, kern, cq,
\* req_queued, the control variables and held) hold one value per worker,
\* executor[t] names the worker whose executor the header records, and
\* visited[w] is the set of objects worker w has read or written.
NWorkers == 2
Workers == 1..NWorkers

PoolCnt == <<"POOL", "exhaust_list_cnt">>
PoolFreeList == <<"POOL", "free_list">>
PoolStorage(s) == <<"POOL", "pool", s>>
ThreadExecutor(w) == <<"EXECUTOR", w>>
ThreadReactor(w) == <<"REACTOR", w>>

Touch(w, objs) == visited' = [visited EXCEPT ![w] = @ \cup objs]

InitWorkers ==
    /\ executor_queue_next = [t \in Slots |-> NULL]
    /\ task_pool_queue_next = [t \in Slots |-> NULL]
    /\ executor = [t \in Slots |-> NULL]
    /\ poll_fn = [t \in Slots |-> FALSE]
    /\ task_pool_ptr = [t \in Slots |-> FALSE]
    /\ task_pool_finalizer_fn = [t \in Slots |-> FALSE]
    /\ future = [t \in Slots |-> EmptyFuture]
    /\ req = [t \in Slots |-> EmptyReq]
    /\ exhaust_list_cnt = 0
    /\ free_list_head = NULL
    /\ task_queue_head = [w \in Workers |-> NULL]
    /\ spawned = [w \in Workers |-> 0]
    /\ sq = [w \in Workers |-> <<>>]
    /\ kern = [w \in Workers |-> [u \in 0..NSlots |-> 0]]
    /\ cq = [w \in Workers |-> <<>>]
    /\ req_queued = [w \in Workers |-> 0]
    /\ epc = [w \in Workers |-> "user"]
    /\ cur = [w \in Workers |-> NULL]
    /\ cursor = [w \in Workers |-> NULL]
    /\ finished = [w \in Workers |-> FALSE]
    /\ rstack = <<>>
    /\ rret = OkRet(0, FALSE)
    /\ held = [w \in Workers |-> {}]
    /\ ev = Ev("init", NULL, "-", FALSE)
    /\ drainSet = {}
    /\ visited = [w \in Workers |-> {}]
    /\ enqDuring = {}

\* What no worker step of this specification changes.
workerIdle == <<req, ringVars, req_queued, reactVars, drainSet, enqDuring>>

\* prepare_task, `if self.exhaust_list_cnt < N { let storage =
\* &mut self.pool[self.exhaust_list_cnt];`: the worker reads the pool's
\* high-water index and takes that storage.
WorkerPrepareIndex(w) ==
    /\ epc[w] = "user"
    /\ exhaust_list_cnt < NSlots
    /\ cur' = [cur EXCEPT ![w] = exhaust_list_cnt + 1]
    /\ epc' = [epc EXCEPT ![w] = "bump"]
    /\ Touch(w, {PoolCnt})
    /\ ev' = Ev("prepare_index", w, "-", FALSE)
    /\ UNCHANGED <<hdrVars, future, poolVars, execVars, cursor, finished, held,
                   workerIdle>>

\* `self.exhaust_list_cnt += 1`, not atomic: the store is the value the
\* worker read for the index plus one, or a fresh read plus one.
WorkerPrepareBump(w) ==
    /\ epc[w] = "bump"
    /\ exhaust_list_cnt' \in {cur[w], exhaust_list_cnt + 1}
    /\ epc' = [epc EXCEPT ![w] = "install"]
    /\ Touch(w, {PoolCnt})
    /\ ev' = Ev("prepare_bump", w, "-", FALSE)
    /\ UNCHANGED <<hdrVars, future, free_list_head, execVars, cur, cursor,
                   finished, held, workerIdle>>

\* The future is written into the storage and the header installed; the
\* #[task] function returns Some(TaskRef).
WorkerPrepareInstall(w) ==
    /\ epc[w] = "install"
    /\ PrepareInstall(cur[w], 0)
    /\ held' = [held EXCEPT ![w] = {cur[w]}]
    /\ epc' = [epc EXCEPT ![w] = "spawn"]
    /\ Touch(w, {PoolStorage(cur[w])})
    /\ ev' = Ev("prepare", w, "some", FALSE)
    /\ UNCHANGED <<executor_queue_next, task_pool_queue_next, executor, poolVars,
                   execVars, ringVars, req_queued, cur, cursor, finished,
                   reactVars, drainSet, enqDuring>>

\* PerThreadExecutor::spawn_task on the worker's own executor: count the
\* task, record the executor in the header, link the task at the head.
WorkerSpawn(w) ==
    /\ epc[w] = "spawn"
    /\ \E t \in held[w] :
          /\ spawned' = [spawned EXCEPT ![w] = @ + 1]
          /\ executor' = [executor EXCEPT ![t] = w]
          /\ task_queue_head' = [task_queue_head EXCEPT ![w] = t]
          /\ executor_queue_next' =
                [executor_queue_next EXCEPT ![t] = task_queue_head[w]]
          /\ held' = [held EXCEPT ![w] = {}]
          /\ Touch(w, {ThreadExecutor(w), PoolStorage(t)})
    /\ epc' = [epc EXCEPT ![w] = "drain"]
    /\ ev' = Ev("spawn", w, "-", FALSE)
    /\ UNCHANGED <<task_pool_queue_next, poll_fn, task_pool_ptr,
                   task_pool_finalizer_fn, future, poolVars, cur, cursor,
                   finished, workerIdle>>

\* TaskQueue::drain, first line, on the worker's own queue.
WorkerDrainStart(w) ==
    /\ epc[w] = "drain"
    /\ cursor' = [cursor EXCEPT ![w] = task_queue_head[w]]
    /\ task_queue_head' = [task_queue_head EXCEPT ![w] = NULL]
    /\ epc' = [epc EXCEPT ![w] = "walk"]
    /\ Touch(w, {ThreadExecutor(w)})
    /\ ev' = Ev("drain_start", w, "-", FALSE)
    /\ UNCHANGED <<hdrVars, future, poolVars, spawned, cur, finished, held,
                   workerIdle>>

\* One turn of drain's loop: the node's link is read and cleared and the
\* visitor looks up the poll thunk.
WorkerDrainVisit(w) ==
    /\ epc[w] = "walk"
    /\ cursor[w] # NULL
    /\ cur' = [cur EXCEPT ![w] = cursor[w]]
    /\ cursor' = [cursor EXCEPT ![w] = executor_queue_next[cursor[w]]]
    /\ executor_queue_next' = [executor_queue_next EXCEPT ![cursor[w]] = NULL]
    /\ epc' = [epc EXCEPT ![w] = IF poll_fn[cursor[w]] THEN "poll" ELSE "walk"]
    /\ Touch(w, {PoolStorage(cursor[w])})
    /\ ev' = Ev("visit", w, "-", FALSE)
    /\ UNCHANGED <<task_pool_queue_next, executor, poll_fn, task_pool_ptr,
                   task_pool_finalizer_fn, future, poolVars, execVars, finished,
                   held, workerIdle>>

\* The poll thunk polls the stored future, which awaits nothing and returns:
\* the future is dropped in place. A future that has already returned panics
\* when it is polled again.
WorkerPoll(w) ==
    /\ epc[w] = "poll"
    /\ IF future[cur[w]].st = "live"
       THEN /\ future' = [future EXCEPT ![cur[w]].st = "dropped"]
            /\ finished' = [finished EXCEPT ![w] = TRUE]
            /\ epc' = [epc EXCEPT ![w] = "ret"]
            /\ ev' = Ev("fut_ready", w, "ready", FALSE)
       ELSE /\ epc' = [epc EXCEPT ![w] = "crashed"]
            /\ ev' = Ev("fut_ready", w, "panic", FALSE)
            /\ UNCHANGED <<future, finished>>
    /\ Touch(w, {PoolStorage(cur[w])})
    /\ UNCHANGED <<hdrVars, poolVars, execVars, cur, cursor, held, workerIdle>>

\* The rest of the visitor: TaskPool::finalize links the storage into the
\* pool's free list, and the worker's live counter is decremented.
WorkerVisitEnd(w) ==
    /\ epc[w] = "ret"
    /\ free_list_head' = cur[w]
    /\ task_pool_queue_next' = [task_pool_queue_next EXCEPT ![cur[w]] = free_list_head]
    /\ spawned' = [spawned EXCEPT ![w] = @ - 1]
    /\ finished' = [finished EXCEPT ![w] = FALSE]
    /\ epc' = [epc EXCEPT ![w] = "walk"]
    /\ Touch(w, {PoolFreeList, PoolStorage(cur[w]), ThreadExecutor(w)})
    /\ ev' = Ev("visit_end", w, "ready", FALSE)
    /\ UNCHANGED <<executor_queue_next, executor, poll_fn, task_pool_ptr,
                   task_pool_finalizer_fn, future, exhaust_list_cnt,
                   task_queue_head, cur, cursor, held, workerIdle>>

\* The drain is over; the hook, PerThreadReactor::run(1000), works on the
\* worker's own reactor (no request is in flight: nothing is left in its
\* ring when it returns), and Executor::run looks at its live counter.
WorkerHook(w) ==
    /\ epc[w] = "walk"
    /\ cursor[w] = NULL
    /\ epc' = [epc EXCEPT ![w] = IF spawned[w] = 0 THEN "done" ELSE "drain"]
    /\ Touch(w, {ThreadReactor(w), ThreadExecutor(w)})
    /\ ev' = Ev("hook_end", w, "ok", FALSE)
    /\ UNCHANGED <<hdrVars, future, poolVars, execVars, cur, cursor, finished,
                   held, workerIdle>>

NextWorkers ==
    \E w \in Workers :
        \/ WorkerPrepareIndex(w) \/ WorkerPrepareBump(w) \/ WorkerPrepareInstall(w)
        \/ WorkerSpawn(w) \/ WorkerDrainStart(w) \/ WorkerDrainVisit(w)
        \/ WorkerPoll(w) \/ WorkerVisitEnd(w) \/ WorkerHook(w)

SpecWorkers == InitWorkers /\ [][NextWorkers]_vars


\* ------------------------------------------------ the run queue on its own
\* TaskQueue as a data structure: tasks that are not linked are enqueued, by
\* the caller or by the visitor of a running drain, and the queue is drained.
\* In this specification enqDuring is the sequence of the tasks enqueued
\* since the last drain began, in the order of the calls, and drainSet is
\* that sequence as it was when the running drain began.
QTasks == 3
QueueTasks == 1..QTasks

InitQueue ==
    /\ executor_queue_next = [t \in QueueTasks |-> NULL]
    /\ task_pool_queue_next = [t \in QueueTasks |-> NULL]
    /\ executor = [t \in QueueTasks |-> FALSE]
    /\ poll_fn = [t \in QueueTasks |-> FALSE]
    /\ task_pool_ptr = [t \in QueueTasks |-> FALSE]
    /\ task_pool_finalizer_fn = [t \in QueueTasks |-> FALSE]
    /\ future = [t \in QueueTasks |-> EmptyFuture]
    /\ req = [t \in QueueTasks |-> EmptyReq]
    /\ exhaust_list_cnt = 0
    /\ free_list_head = NULL
    /\ task_queue_head = NULL
    /\ spawned = 0
    /\ sq = <<>>
    /\ kern = [u \in 0..QTasks |-> 0]
    /\ cq = <<>>
    /\ req_queued = 0
    /\ epc = "user"
    /\ cur = NULL
    /\ cursor = NULL
    /\ finished = FALSE
    /\ rstack = <<>>
    /\ rret = OkRet(0, FALSE)
    /\ held = {}
    /\ ev = Ev("init", NULL, "-", FALSE)
    /\ drainSet = <<>>
    /\ visited = <<>>
    /\ enqDuring = <<>>

\* What no step of this specification changes.
queueIdle == <<task_pool_queue_next, executor, poll_fn, task_pool_ptr,
               task_pool_finalizer_fn, futVars, poolVars, spawned, ringVars,
               req_queued, finished, reactVars, held>>

\* TaskQueue::enqueue of a task that is not in the queue (its safety contract).
QueueEnqueue ==
    \E t \in QueueTasks :
        /\ ~Linked(t)
        /\ TaskQueueEnqueue(t)
        /\ enqDuring' = Append(enqDuring, t)
        /\ ev' = Ev("enqueue", t, "-", FALSE)
        /\ UNCHANGED <<ctlVars, drainSet, visited, queueIdle>>

\* TaskQueue::drain, first line: the head is swapped with null.
QueueDrainStart ==
    /\ epc = "user"
    /\ cursor' = task_queue_head
    /\ task_queue_head' = NULL
    /\ epc' = "walk"
    /\ drainSet' = enqDuring
    /\ enqDuring' = <<>>
    /\ visited' = <<>>
    /\ ev' = Ev("drain_start", NULL, "-", FALSE)
    /\ UNCHANGED <<executor_queue_next, cur, queueIdle>>

\* One turn of drain's while loop: the node's link is read and cleared and
\* on_task is called with the node.
QueueDrainVisit ==
    /\ epc = "walk"
    /\ cursor # NULL
    /\ cur' = cursor
    /\ cursor' = DrainNext(cursor)
    /\ executor_queue_next' = [executor_queue_next EXCEPT ![cursor] = NULL]
    /\ visited' = Append(visited, cursor)
    /\ ev' = Ev("visit", cursor, "-", FALSE)
    /\ UNCHANGED <<task_queue_head, epc, drainSet, enqDuring, queueIdle>>

\* The loop ends at the null terminator and drain returns.
QueueDrainEnd ==
    /\ epc = "walk"
    /\ cursor = NULL
    /\ epc' = "user"
    /\ cur' = NULL
    /\ ev' = Ev("drain_end", NULL, "-", FALSE)
    /\ UNCHANGED <<task_queue_head, executor_queue_next, cursor, histVars, queueIdle>>

NextQueue == QueueEnqueue \/ QueueDrainStart \/ QueueDrainVisit \/ QueueDrainEnd

SpecQueue == InitQueue /\ [][NextQueue]_vars


\* ------------------------------------------- the nop scenario, busy kernel
\* The nop scenario with a kernel that may also answer a submit with EBUSY or
\* EAGAIN. The errors are transient: a submit that is attempted again and
\* again is accepted in the end, and a wait that can return does return; the
\* kernel completes every request and every timeout marker it holds.
TickWorker == NopWorker \/ FsubAfterBusy

NextTick == TickWorker \/ FsubOk \/ FsubEintr \/ FsubEbusy \/ NopKernelComplete

SpecTick ==
    /\ Init /\ [][NextTick]_vars
    /\ WF_vars(TickWorker)
    /\ WF_vars(NopKernelComplete)
    /\ SF_vars(FsubOk)
    /\ SF_vars(FsubSubmit)


\* ------------------------------------------- the timeout marker's deadline
\* run_for_ns(ns) up to the push of its first marker, with the values it
\* computes: the frame holds the locals ts (the clock value read) and
\* timeout_ts, and `tmp`, the temporary the last builder call returned; an
\* entry of the submission queue is [user_data, ts], ts being the timespec
\* the entry points to. The clock values and ns are samples whose sum of
\* nanoseconds fits the u32 of the nsec argument.
ClockSecs == {0, 1, 86400}
ClockNsecs == {0, 1, 999999999}
NsArgs == {0, 1000, 1000000}

\* io_uring::types::Timespec::new()
TimespecNew == [tv_sec |-> 0, tv_nsec |-> 0]

\* Timespec::sec(self, sec) -> Self and Timespec::nsec(self, nsec) -> Self:
\* builders that take the (Copy) value and return the changed copy.
TimespecSec(self, sec) == [self EXCEPT !.tv_sec = sec]
TimespecNsec(self, nsec) == [self EXCEPT !.tv_nsec = nsec]

InDeadline(pc) == rstack # <<>> /\ Top.fn = "run_for_ns" /\ Top.pc = pc

deadlineIdle == <<taskSide, kern, cq, req_queued, rret>>

\* run_for_ns(ns) is called and reads the monotonic clock into ts.
DeadlineClock ==
    /\ rstack = <<>>
    /\ ev.op = "init"
    /\ \E s \in ClockSecs, n \in ClockNsecs, ns \in NsArgs :
          rstack' = << [fn |-> "run_for_ns", pc |-> "new", ns |-> ns,
                        ts |-> [tv_sec |-> s, tv_nsec |-> n],
                        timeout_ts |-> TimespecNew, tmp |-> TimespecNew] >>
    /\ ev' = Ev("reactor", NULL, "rfn:clock", FALSE)
    /\ UNCHANGED <<sq, deadlineIdle>>

\* `let timeout_ts = io_uring::types::Timespec::new();`
DeadlineNew ==
    /\ InDeadline("new")
    /\ rstack' = SetTop([Top EXCEPT !.pc = "sec", !.timeout_ts = TimespecNew])
    /\ ev' = Ev("reactor", NULL, "rfn:new", FALSE)
    /\ UNCHANGED <<sq, deadlineIdle>>

\* `timeout_ts.sec(ts.tv_sec as u64);`: the value the builder returns is a
\* temporary that is dropped; timeout_ts, not declared mut, stays as it is.
DeadlineSec ==
    /\ InDeadline("sec")
    /\ rstack' = SetTop([Top EXCEPT !.pc = "nsec",
                                    !.tmp = TimespecSec(Top.timeout_ts, Top.ts.tv_sec)])
    /\ ev' = Ev("reactor", NULL, "rfn:sec", FALSE)
    /\ UNCHANGED <<sq, deadlineIdle>>

\* `timeout_ts.nsec(ts.tv_nsec as u32 + ns);`, dropped in the same way.
DeadlineNsec ==
    /\ InDeadline("nsec")
    /\ rstack' = SetTop([Top EXCEPT !.pc = "build",
                                    !.tmp = TimespecNsec(Top.timeout_ts,
                                                         Top.ts.tv_nsec + Top.ns)])
    /\ ev' = Ev("reactor", NULL, "rfn:nsec", FALSE)
    /\ UNCHANGED <<sq, deadlineIdle>>

\* `Timeout::new(&timeout_ts as *const _).build().user_data(0)` and the push.
DeadlinePush ==
    /\ InDeadline("build")
    /\ sq' = Append(sq, [user_data |-> NULL, ts |-> Top.timeout_ts])
    /\ rstack' = SetTop([Top EXCEPT !.pc = "pushed"])
    /\ ev' = Ev("reactor", NULL, "rfn:push", FALSE)
    /\ UNCHANGED deadlineIdle

NextDeadline ==
    DeadlineClock \/ DeadlineNew \/ DeadlineSec \/ DeadlineNsec \/ DeadlinePush

SpecDeadline == Init /\ [][NextDeadline]_vars


\* ------------------------------------------- flush_completions on its own
\* One call flush_completions(want, timeouts, false) for each want up to
\* MaxWant, made while the tasks of a set `fl` are suspended on a request
\* the kernel holds (each counted in req_queued) and `m` timeout markers are
\* in the kernel; the kernel completes them while the call runs.
MaxWant == 2

InitFcomp ==
    \E want \in 0..MaxWant, fl \in SUBSET Slots, m \in 0..1 :
        /\ executor_queue_next = [t \in Slots |-> NULL]
        /\ task_pool_queue_next = [t \in Slots |-> NULL]
        /\ executor = [t \in Slots |-> t \in fl]
        /\ poll_fn = [t \in Slots |-> t \in fl]
        /\ task_pool_ptr = [t \in Slots |-> t \in fl]
        /\ task_pool_finalizer_fn = [t \in Slots |-> t \in fl]
        /\ future = [t \in Slots |-> IF t \in fl
                                      THEN [st |-> "live", ops |-> 0, awaiting |-> TRUE]
                                      ELSE EmptyFuture]
        /\ req = [t \in Slots |-> IF t \in fl
                                   THEN [return_val |-> None, waker |-> TRUE]
                                   ELSE EmptyReq]
        /\ exhaust_list_cnt = Cardinality(fl)
        /\ free_list_head = NULL
        /\ task_queue_head = NULL
        /\ spawned = Cardinality(fl)
        /\ sq = <<>>
        /\ kern = [u \in 0..NSlots |-> IF u = NULL THEN m ELSE IF u \in fl THEN 1 ELSE 0]
        /\ cq = <<>>
        /\ req_queued = Cardinality(fl)
        /\ epc = "hook"
        /\ cur = NULL
        /\ cursor = NULL
        /\ finished = FALSE
        /\ rstack = << Frame("flush_completions", "loop", want, m, FALSE) >>
        /\ rret = OkRet(0, FALSE)
        /\ held = {}
        /\ ev = Ev("init", NULL, "-", FALSE)
        /\ drainSet = {}
        /\ visited = <<>>
        /\ enqDuring = {}

NextFcomp == FcompLoop \/ FcompMarker \/ FcompDispatch \/ FcompCheck \/ KernelComplete

SpecFcomp == InitFcomp /\ [][NextFcomp]_vars


\* ------------------------------------------------------- wakes from outside
\* wake_task is public and a TaskRef is Copy: user code can wake a task it
\* has prepared, spawned or not. (A task that is linked is left alone here:
\* enqueueing it again would tie the chain into a cycle.)
UserWake ==
    /\ epc = "user"
    /\ \E t \in Slots :
          /\ poll_fn[t]
          /\ ~Linked(t)
          /\ Wake(t)
          /\ ev' = Ev("user_wake", t, IF executor[t] THEN "some" ELSE "none", FALSE)
    /\ UNCHANGED <<task_pool_queue_next, poll_fn, task_pool_ptr, task_pool_finalizer_fn,
                   futVars, poolVars, spawned, ringVars, req_queued, ctlVars, reactVars,
                   held, drainSet, visited>>

NextUserWake == NextWake \/ UserWake

SpecUserWake == Init /\ [][NextUserWake]_vars

\* ------------------------------------------------------- a pool on its own
\* The TaskPool driven through its two entry points by code that holds the
\* TaskRefs: prepare_task, and the completion of a task, at which the
\* executor's visitor calls the finalizer thunk of the header.
PoolFinalize ==
    /\ epc = "user"
    /\ \E t \in held :
          /\ future' = [future EXCEPT ![t].st = "dropped"]
          /\ Finalize(t)
          /\ held' = held \ {t}
          /\ ev' = Ev("finalize", t, "-", FALSE)
    /\ UNCHANGED <<executor_queue_next, executor, poll_fn, task_pool_ptr,
                   task_pool_finalizer_fn, req, exhaust_list_cnt, execVars,
                   ringVars, req_queued, ctlVars, reactVars, histVars>>

NextPool == UserPrepare \/ PoolFinalize

SpecPool == Init /\ [][NextPool]_vars

\* ------------------------------------------------- a standalone TaskStorage
\* PerThreadExecutor::spawn boxes and leaks a TaskStorage of its own and
\* prepares the task with TaskStorage::prepare_task: the storage is not a
\* slot of any pool.
StandaloneStorage == NSlots + 1

Storages == Slots \cup {StandaloneStorage}

InitStandalone ==
    /\ executor_queue_next = [t \in Storages |-> NULL]
    /\ task_pool_queue_next = [t \in Storages |-> NULL]
    /\ executor = [t \in Storages |-> FALSE]
    /\ poll_fn = [t \in Storages |-> FALSE]
    /\ task_pool_ptr = [t \in Storages |-> FALSE]
    /\ task_pool_finalizer_fn = [t \in Storages |-> FALSE]
    /\ future = [t \in Storages |-> EmptyFuture]
    /\ req = [t \in Storages |-> EmptyReq]
    /\ exhaust_list_cnt = 0
    /\ free_list_head = NULL
    /\ task_queue_head = NULL
    /\ spawned = 0
    /\ sq = <<>>
    /\ kern = [u \in {NULL} \cup Storages |-> 0]
    /\ cq = <<>>
    /\ req_queued = 0
    /\ epc = "user"
    /\ cur = NULL
    /\ cursor = NULL
    /\ finished = FALSE
    /\ rstack = <<>>
    /\ rret = OkRet(0, FALSE)
    /\ held = {}
    /\ ev = Ev("init", NULL, "-", FALSE)
    /\ drainSet = {}
    /\ visited = <<>>
    /\ enqDuring = {}

\* TaskStorage::prepare_task: the future is written, the storage pointer and
\* the poll thunk installed; the pool fields are not written.
StoragePrepare(s, ops) ==
    /\ future' = [future EXCEPT ![s] = [st |-> "live", ops |-> ops, awaiting |-> FALSE]]
    /\ req' = [req EXCEPT ![s] = EmptyReq]
    /\ poll_fn' = [poll_fn EXCEPT ![s] = TRUE]
    /\ UNCHANGED <<task_pool_ptr, task_pool_finalizer_fn>>

\* PerThreadExecutor::spawn(fut): prepare on the leaked storage, then
\* spawn_task.
SpawnFuture ==
    /\ epc = "user"
    /\ ~poll_fn[StandaloneStorage]
    /\ \E ops \in 0..1 : StoragePrepare(StandaloneStorage, ops)
    /\ SpawnTask(StandaloneStorage)
    /\ ev' = Ev("spawn", StandaloneStorage, "-", Linked(StandaloneStorage))
    /\ UNCHANGED <<task_pool_queue_next, poolVars, ringVars, req_queued, ctlVars,
                   reactVars, held, drainSet, visited>>

NextStandalone ==
    \/ SpawnFuture \/ NopPrepare \/ UserSpawn \/ RunCall
    \/ DrainStart \/ DrainVisit \/ DrainEnd
    \/ FutOpReady \/ FutOpPending \/ FutReady \/ VisitEnd
    \/ HookReturn \/ RunLoop \/ RunReturn
    \/ RunCallFlush \/ RunAfterFlush \/ RunAfterRfn
    \/ FlushCallFsub \/ FlushAfterFsub \/ FlushAfterFcomp
    \/ FsubSubmit \/ FsubOk \/ FsubEintr
    \/ FcompLoop \/ FcompMarker \/ FcompDispatch \/ FcompCheck
    \/ RfnPush \/ RfnAfterFlush \/ RfnTail
    \/ NopKernelComplete

SpecStandalone == InitStandalone /\ [][NextStandalone]_vars

\* ------------------------------------------------ the nanosecond field, u32
\* `ts.tv_nsec as u32 + ns` is a sum of two u32. A u32 is kept as two 16-bit
\* halves, so that sums up to 2^33 can be formed.
U32Half == 65536

U32(hi, lo) == [hi |-> hi, lo |-> lo]

\* The u32 of a value below 2^31.
U32Of(n) == U32(n \div U32Half, n % U32Half)

\* a + b on u32: the wrapped sum, and whether the true sum needs a 33rd bit.
AddU32(a, b) ==
    LET lo == a.lo + b.lo
        hi == a.hi + b.hi + (lo \div U32Half)
    IN  [val |-> U32(hi % U32Half, lo % U32Half), overflow |-> hi >= U32Half]

\* What `a + b` yields: the sum; on overflow a panic in a build with overflow
\* checks and the wrapped sum in one without.
NsecSum(a, b) ==
    IF AddU32(a, b).overflow
    THEN {[panic |-> TRUE, val |-> AddU32(a, b).val],
          [panic |-> FALSE, val |-> AddU32(a, b).val]}
    ELSE {[panic |-> FALSE, val |-> AddU32(a, b).val]}

\* v < 1_000_000_000 = 15258 * 2^16 + 51712: what the kernel accepts as the
\* nanosecond field of a timespec.
ValidNsec(v) == v.hi < 15258 \/ (v.hi = 15258 /\ v.lo < 51712)

\* Clock readings and ns arguments, the latter over the whole range of u32.
NowNsecs == {0, 1, 294967296, 500000000, 999999999}
NsWide == {U32Of(0), U32Of(1), U32Of(1000), U32Of(1000000), U32Of(999999999),
           U32Of(1000000000), U32(32768, 0), U32(61035, 10240), U32(65535, 65535)}

\* run_for_ns(ns) is called, reads the clock and makes the empty timespec.
NsecClock ==
    /\ rstack = <<>>
    /\ ev.op = "init"
    /\ \E s \in ClockSecs, n \in NowNsecs, ns \in NsWide :
          rstack' = << [fn |-> "run_for_ns", pc |-> "nsec", ns |-> ns,
                        ts |-> [tv_sec |-> s, tv_nsec |-> n],
                        timeout_ts |-> TimespecNew, tmp |-> TimespecNew,
                        wrapped |-> FALSE] >>
    /\ ev' = Ev("reactor", NULL, "rfn:clock", FALSE)
    /\ UNCHANGED <<sq, deadlineIdle>>

\* `timeout_ts.nsec(ts.tv_nsec as u32 + ns);` with the sum formed on u32.
NsecAdd ==
    /\ epc = "user"
    /\ InDeadline("nsec")
    /\ \E out \in NsecSum(U32Of(Top.ts.tv_nsec), Top.ns) :
          IF out.panic
          THEN /\ epc' = "crashed"
               /\ UNCHANGED rstack
          ELSE /\ UNCHANGED epc
               /\ rstack' = SetTop([Top EXCEPT
                                      !.pc = "build",
                                      !.tmp = TimespecNsec(Top.timeout_ts, out.val),
                                      !.wrapped = AddU32(U32Of(Top.ts.tv_nsec),
                                                         Top.ns).overflow])
    /\ ev' = Ev("reactor", NULL, "rfn:nsec", FALSE)
    /\ UNCHANGED <<hdrVars, futVars, poolVars, execVars, ringVars, req_queued,
                   cur, cursor, finished, rret, held, histVars>>

NextNsec == NsecClock \/ NsecAdd \/ DeadlinePush

SpecNsec == Init /\ [][NextNsec]_vars

\* =================================================================== claims
Range(q) == {q[i] : i \in 1..Len(q)}
NoDup(q) == \A i, j \in 1..Len(q) : i # j => q[i] # q[j]

\* A step of prepare_task, from user code or from a task's code.
PrepareStep == ev'.op \in {"prepare", "child"}

\* The request of task t is in the ring: pushed and not yet dispatched.
InFlight(t) ==
    \/ t \in Range(sq)
    \/ kern[t] > 0
    \/ \E i \in 1..Len(cq) : cq[i][1] = t

\* The task whose poll has reported ready and which the visitor has not yet
\* finalized and counted.
Finishing(t) == epc = "ret" /\ cur = t /\ finished

\* The spawned tasks that have not yet reported ready to the executor.
LiveTasks ==
    {t \in Slots : t \notin held /\ (future[t].st = "live" \/ Finishing(t))}

\* C1: the live counter is incremented once per task, by spawn, and
\* decremented once per task, when its poll reports ready; wakes (the reactor's
\* dispatch, a future's self-wake) leave it alone; so it always equals the
\* number of spawned tasks that have not yet reported ready, and is never
\* negative.
C1_CounterStep ==
    /\ spawned' # spawned =>
          \/ spawned' = spawned + 1 /\ ev'.op \in {"spawn", "child"}
          \/ spawned' = spawned - 1 /\ ev'.op = "visit_end" /\ ev'.res = "ready"
    /\ (ev'.op = "spawn" \/ (ev'.op = "child" /\ ev'.res = "some")) => spawned' = spawned + 1
    /\ (ev'.op = "visit_end" /\ ev'.res = "ready") => spawned' = spawned - 1
    /\ ev'.op \in {"dispatch", "op_pending"} => spawned' = spawned

C1_LiveCounter ==
    /\ [](spawned = Cardinality(LiveTasks) /\ spawned >= 0)
    /\ [][C1_CounterStep]_vars

\* A task reports ready in a drain in which a task was enqueued, while
\* another task is still live.
C1_Witness ==
    /\ ev.op = "visit_end" /\ ev.res = "ready"
    /\ spawned = 1
    /\ enqDuring # {}

\* The pool has no storage to hand out: all N slots are live.
PoolExhausted == exhaust_list_cnt = NSlots /\ free_list_head = NULL

\* C2: a prepare on a pool whose high-water index is N and whose free list is
\* empty returns none and changes nothing: not the index, the free list, any
\* slot or header.
C2_ExhaustedPrepareIsNone ==
    [][(PoolExhausted /\ PrepareStep) =>
          /\ ev'.res = "none"
          /\ UNCHANGED <<hdrVars, futVars, poolVars, execVars, held, epc>>]_vars

\* The prepares that would succeed now: unused slots plus free-list entries.
Avail == (NSlots - exhaust_list_cnt) + Len(ChainSeq(free_list_head, task_pool_queue_next))

\* The slots that hold a task: prepared, and not yet finalized.
PoolLive == {t \in Slots : future[t].st = "live" \/ Finishing(t)}

\* C3: the pool accepts exactly N - live further prepares: (N - high-water
\* index) + free-list length = N - live in every state, a prepare succeeds and
\* takes one of them while any is left, and the prepare after them returns
\* none.
C3_PoolAccepts ==
    /\ [](Avail = NSlots - Cardinality(PoolLive))
    /\ [][PrepareStep =>
             IF Avail > 0
             THEN ev'.res = "some" /\ Avail' = Avail - 1
             ELSE ev'.res = "none" /\ Avail' = 0]_vars

\* C4: with all N slots live a prepare returns none; with one task finalized
\* since, the next prepare succeeds, returns the slot just finalized and
\* leaves the free list empty.
C4_ExhaustThenReuse ==
    [][PrepareStep =>
          /\ (exhaust_list_cnt = NSlots /\ Cardinality(PoolLive) = NSlots)
                => ev'.res = "none"
          /\ (exhaust_list_cnt = NSlots /\ Cardinality(PoolLive) = NSlots - 1)
                => /\ ev'.res = "some"
                   /\ ev'.t = free_list_head
                   /\ free_list_head' = NULL]_vars

\* Where a task slot is.
BeingPolled(t) == epc \in {"poll", "ret"} /\ cur = t
Suspended(t) ==
    /\ future[t].st = "live" /\ future[t].awaiting /\ req[t].return_val = None
    /\ InFlight(t)
    /\ ~BeingPolled(t)
HeldByUser(t) == t \in held \/ Suspended(t)
Places(t) ==
    (IF Linked(t) THEN {"queue"} ELSE {})
    \cup (IF InFreeList(t) THEN {"free"} ELSE {})
    \cup (IF BeingPolled(t) THEN {"polled"} ELSE {})
    \cup (IF HeldByUser(t) THEN {"held"} ELSE {})

\* The poll of t, still returning, has woken t after a failed push.
SelfWoken(t) ==
    /\ epc = "ret" /\ cur = t /\ ~finished
    /\ t \in enqDuring
    /\ future[t].awaiting /\ req[t].return_val = None /\ ~InFlight(t)

\* C5 as stated: every slot is in at most one of run queue, free list,
\* being polled, held by user code.
C5_AtMostOnePlace == \A t \in Slots : Cardinality(Places(t)) <= 1

\* C5: every slot is in at most one of run queue, free list, being polled,
\* held by user code, but for the task whose own poll has woken it after a
\* failed push: it is linked in the run queue while that poll returns pending.
C5_AtMostOnePlaceButSelfWake ==
    \A t \in Slots :
        \/ Cardinality(Places(t)) <= 1
        \/ Places(t) = {"queue", "polled"} /\ SelfWoken(t)

C5_Witness == \E t \in Slots : Places(t) = {"queue", "polled"}

\* C6: no wake, by the reactor's dispatch or by a future's self-wake after a
\* failed push, is applied to a task that is linked in the run queue.
C6_NoWakeOnLinked ==
    (ev.op = "dispatch" \/ (ev.op = "op_pending" /\ ev.res = "push_failed"))
        => ~ev.linked

\* The dispatch wakes a task onto a run queue that holds another task.
C6_Witness == ev.op = "dispatch" /\ executor_queue_next[ev.t] # NULL

\* C7: every task linked in the run queue when a drain begins is visited, and
\* polled, exactly once in that drain: at its end the visited tasks are those
\* tasks, none twice.
C7_DrainPollsAllOnce ==
    /\ epc \in {"walk", "poll", "ret"} =>
          /\ NoDup(visited)
          /\ Range(visited) \subseteq drainSet
          /\ \A t \in Range(visited) : poll_fn[t]
    /\ (epc = "walk" /\ cursor = NULL) => Range(visited) = drainSet

C7_Witness == epc = "walk" /\ cursor = NULL /\ Len(visited) >= 2

\* C8: a task enqueued while a drain is in progress is not visited in that
\* drain; it is in the chain the next drain detaches.
C8_EnqueuedPolledNextDrain ==
    /\ [](ev.op = "visit" => ev.t \notin enqDuring)
    /\ [][(epc = "drain" /\ epc' = "walk") => enqDuring \subseteq drainSet']_vars

\* A drain ends with a task it visited linked anew: woken during its visit.
C8_Witness ==
    /\ epc = "walk" /\ cursor = NULL
    /\ \E t \in Range(visited) : t \in enqDuring /\ t \in Chain(task_queue_head, executor_queue_next)

RunDecides == At("run", "after_flush") /\ ev'.op = "reactor"

\* C11: after its non-blocking flush Reactor::run calls run_for_ns if and
\* only if the outstanding-request counter is greater than zero; with no
\* outstanding request it returns at once, leaving the ring as it is.
C11_RunForNsIffOutstanding ==
    [][RunDecides =>
          IF req_queued > 0
          THEN ev'.res = "run:run_for_ns"
          ELSE ev'.res = "run:ok" /\ rstack' = Popped /\ UNCHANGED ringVars]_vars

\* The operation futures that have been polled and whose return slot is empty.
PendingOps ==
    {t \in Slots : future[t].st = "live" /\ future[t].awaiting /\ req[t].return_val = None}

\* C12: the outstanding-request counter is at least the number of operation
\* futures that have been polled and are not yet ready (so at least 1 when
\* there is one).
C12_CounterCoversPending == req_queued >= Cardinality(PendingOps)

\* Two operation futures are pending, one of them pushed and one not.
C12_Witness ==
    /\ Cardinality(PendingOps) = 2
    /\ \E t \in PendingOps : InFlight(t)
    /\ \E t \in PendingOps : ~InFlight(t)

\* The requests pushed and not yet dispatched.
UnreapedOps == {t \in Slots : InFlight(t)}

\* C13: a submit whose push fails leaves the outstanding-request counter as it
\* was; outside the reactor's own run the counter is the number of requests
\* pushed and not yet dispatched, zero when there is none.
C13_FailedPushNotCounted ==
    /\ [][(ev'.op = "op_pending" /\ ev'.res = "push_failed")
             => req_queued' = req_queued]_vars
    /\ [](epc # "hook" => req_queued = Cardinality(UnreapedOps))

\* C14: when the opportunistic flush of Reactor::run has failed, run returns
\* that error to its caller and does nothing more.
C14_RunPropagatesFlushError ==
    [][(RunDecides /\ ~rret.ok) => (rstack' = Popped /\ ~rret'.ok)]_vars


C16_EmptySlotPoll ==
    /\ [][ev'.op = "op_pending" =>
             /\ req[cur].return_val = None
             /\ req'[cur].waker /\ req'[cur].return_val = None
             /\ epc' = "ret" /\ ~finished'
             /\ IF Len(sq) >= RingSize
                THEN /\ ev'.res = "push_failed"
                     /\ sq' = sq
                     /\ task_queue_head' = cur
                     /\ cur \in enqDuring'
                ELSE /\ ev'.res = "pushed"
                     /\ sq' = Append(sq, cur)
                     /\ task_queue_head' = task_queue_head]_vars
    /\ [][(epc = "drain" /\ epc' = "walk") =>
             \A t \in PendingOps : (~InFlight(t) /\ Linked(t)) => t \in drainSet']_vars
    /\ [](ev.op = "visit" /\ ev.t \in PendingOps => epc = "poll")

\* A drain begins with a task in the queue that woke itself after a failed push.
C16_Witness ==
    /\ ev.op = "drain_start"
    /\ \E t \in drainSet : t \in PendingOps /\ ~InFlight(t)

\* C17: an operation future goes forward only: a populated return slot stays
\* as it is until the future is consumed, and a poll of a future whose
\* request is in the ring reports pending without submitting again.
C17_ForwardOnly ==
    [][/\ (ev'.op = "op_pending" /\ InFlight(cur)) =>
             (sq' = sq /\ req_queued' = req_queued /\ epc' = "ret")
       /\ \A t \in Slots :
             (req[t].return_val # None /\ req'[t].return_val # req[t].return_val)
                => (ev'.op = "op_ready" /\ ev'.t = t)]_vars

\* C18 as stated: at most R requests are pushed and not yet dispatched, and a
\* submit that finds R of them fails.
C18_AtMostRUnreaped ==
    /\ [](Cardinality(UnreapedOps) <= RingSize)
    /\ [][(ev'.op = "op_pending" /\ Cardinality(UnreapedOps) >= RingSize)
             => ev'.res = "push_failed"]_vars

\* C18: at most R entries are pushed and not yet handed to the kernel: a
\* submit fails exactly when the submission queue holds R entries, whatever
\* the number of requests the kernel holds.
C18_AtMostRQueued ==
    /\ [](Len(sq) <= RingSize)
    /\ [][ev'.op = "op_pending" =>
             (ev'.res = "push_failed" <=> Len(sq) = RingSize)]_vars

\* A push succeeds with more than R requests not yet dispatched.
C18_Witness ==
    /\ ev.op = "op_pending" /\ ev.res = "pushed"
    /\ Cardinality(UnreapedOps) > RingSize

\* A step that returns from run_for_ns, and the locals it returns with.
RfnReturns == epc = "hook" /\ rstack # <<>> /\ Top.fn = "run_for_ns" /\ rstack' = Popped
RfnLocals == IF Top.pc = "after_tail" THEN rret ELSE Top

\* C19 as stated: a run_for_ns that began with no outstanding request and an
\* empty completion queue has pushed one timeout marker, has seen -ETIME, has
\* its timeout counter at zero and returns Ok.
C19_TimeoutOnlyTick ==
    [][(RfnReturns /\ Top.clean /\ req_queued = 0) =>
          /\ rret'.ok
          /\ Top.pushed = 1
          /\ RfnLocals.etime /\ RfnLocals.timeouts = 0]_vars

\* C19: a run_for_ns that began with no outstanding request and an empty
\* completion queue and returns Ok has pushed one timeout marker, flushed
\* once, seen -ETIME, and has its timeout counter at zero; it returns an
\* error only when a call it made returned one.
C19_TimeoutOnlyTickOk ==
    [][(RfnReturns /\ Top.clean /\ req_queued = 0) =>
          IF rret'.ok
          THEN /\ Top.pushed = 1 /\ Top.flushed = 1
               /\ RfnLocals.etime /\ RfnLocals.timeouts = 0
          ELSE ~rret.ok]_vars

\* run_for_ns has returned Ok and left the ring empty.
C19_Witness ==
    /\ At("run", "after_rfn") /\ rret.ok /\ ev.res = "rfn:tail"
    /\ sq = <<>> /\ cq = <<>> /\ kern[NULL] = 0

\* C20 as stated: every call of run_for_ns has pushed a timeout marker and
\* completed a flush when it returns.
C20_AtLeastOneCycle ==
    [][RfnReturns => (Top.pushed >= 1 /\ Top.flushed >= 1)]_vars

\* C20: every call of run_for_ns that returns Ok has pushed a timeout marker
\* and completed a flush; a call returns an error only from a flush (forced
\* to make room, of the marker, or of the tail) that returned one.
C20_AtLeastOneCycleOk ==
    [][RfnReturns =>
          IF rret'.ok
          THEN Top.pushed >= 1 /\ Top.flushed >= 1
          ELSE ~rret.ok /\ Top.pc \in {"after_force", "after_flush", "after_tail"}]_vars

\* run_for_ns has returned Ok to Reactor::run, which returns to the hook.
C20_Witness == ev.res = "run:ret" /\ rret.ok /\ rstack = <<>>

\* C21: with two or more workers, no executor run queue, live counter,
\* reactor ring, outstanding counter or task pool state is read or written by
\* more than one worker, also when two workers call the same #[task]
\* function: the sets of objects two workers have touched are disjoint.
C21_WorkersShareNothing ==
    \A w1, w2 \in Workers : w1 # w2 => visited[w1] \cap visited[w2] = {}

\* C22: within one drain the order is LIFO: of two tasks that are in the run
\* queue when the drain begins, the one enqueued later is visited (polled)
\* first; a task of the queue is visited only after every task enqueued
\* after it, and the finished drain has visited them all.
C22_DrainIsLifo ==
    /\ \A i, j \in 1..Len(drainSet) :
          i < j => \A k \in 1..Len(visited) :
                      visited[k] = drainSet[i] =>
                          \E m \in 1..(k - 1) : visited[m] = drainSet[j]
    /\ (ev.op = "drain_end" /\ Len(visited) >= 2) => Range(visited) = Range(drainSet)

\* A drain has ended that visited three tasks.
C22_Witness == ev.op = "drain_end" /\ Len(visited) = QTasks

\* The step of flush_completions that takes the completion of request t
\* from the completion queue.
DispatchStep(t) == cq # <<>> /\ cq' = Tail(cq) /\ Head(cq)[1] = t

\* C23: a request's return slot is populated only by completion dispatch and
\* only for the request the completion's user-data names; the dispatch of a
\* request completion writes the kernel's result into exactly that slot,
\* invokes that request's waker once (the task is enqueued once, no other
\* task is) and increments collected by one.
C23_DispatchWritesNamedSlot ==
    [][\A t \in Slots :
          /\ (req[t].return_val = None /\ req'[t].return_val # None)
                => DispatchStep(t)
          /\ DispatchStep(t) =>
                /\ At("flush_completions", "iter")
                /\ req' = [req EXCEPT ![t].return_val = Some(Head(cq)[2])]
                /\ req[t].waker
                /\ executor[t] =>
                      /\ task_queue_head' = t
                      /\ executor_queue_next' =
                            [executor_queue_next EXCEPT ![t] = task_queue_head]
                /\ Top'.collected = Top.collected + 1]_vars

\* A failure result has been dispatched to a request whose slot was empty.
C23_Witness ==
    /\ ev.op = "dispatch"
    /\ req[ev.t].return_val = Some(-2)
    /\ task_queue_head = ev.t

\* The step of flush_completions that takes a timeout marker's completion
\* from the completion queue.
MarkerStep == cq # <<>> /\ cq' = Tail(cq) /\ Head(cq)[1] = NULL

\* C24: user-data 0 is reserved for timeout markers: an entry pushed to the
\* submission queue carries 0 exactly when run_for_ns pushes it, a submitted
\* request carries its own non-zero user-data, and the completion of a marker
\* writes no return slot, wakes no task and is not counted as collected.
C24_ZeroIsMarker ==
    [][/\ Len(sq') > Len(sq) =>
             /\ sq'[Len(sq')] = NULL <=> (rstack # <<>> /\ Top.fn = "run_for_ns")
             /\ sq'[Len(sq')] # NULL =>
                   (epc = "poll" /\ sq'[Len(sq')] = cur /\ cur \in Slots)
       /\ MarkerStep =>
             /\ req' = req
             /\ UNCHANGED <<executor, task_queue_head, executor_queue_next>>
             /\ Top'.collected = Top.collected]_vars

\* A marker's completion has been taken while a request's completion waits
\* behind it in the completion queue.
C24_Witness == ev.op = "marker" /\ cq # <<>> /\ Head(cq)[1] # NULL

\* The reactor function on top of the call stack returns in this step.
Returns(fn) == epc = "hook" /\ rstack # <<>> /\ Top.fn = fn /\ rstack' = Popped

\* The frame below the top: the caller of the running reactor function.
Caller == rstack[Len(rstack) - 1]

\* C25: in flush, a submit interrupted by EINTR is retried; on EBUSY or EAGAIN
\* flush_completions(1) is called, and when it has dispatched what the
\* completion queue held the submit is retried with the counters it
\* returned; any other error ends flush_submissions with that error, and
\* flush returns it to its caller without another submit or a dispatch.
C25_SubmitErrors ==
    [][/\ ev'.res = "fsub:EINTR" =>
             /\ rstack' = SetTop([Top EXCEPT !.pc = "enter"])
             /\ UNCHANGED <<ringVars, req_queued, rret>>
       /\ ev'.res = "fsub:EBUSY" =>
             /\ Len(rstack') = Len(rstack) + 1
             /\ Top'.fn = "flush_completions" /\ Top'.want = 1
             /\ UNCHANGED <<ringVars, req_queued>>
       /\ (Returns("flush_completions") /\ Caller.pc = "after_busy") =>
             /\ Top.batch = 0 /\ Top.collected >= 1
             /\ rret'.ok
       /\ (At("flush_submissions", "after_busy") /\ rret.ok /\ rstack' # rstack) =>
             /\ rstack' = SetTop([Top EXCEPT !.pc = "enter",
                                             !.timeouts = rret.timeouts,
                                             !.etime = rret.etime])
             /\ UNCHANGED ringVars
       /\ ev'.res = "fsub:err" =>
             /\ Returns("flush_submissions") /\ ~rret'.ok
             /\ UNCHANGED <<ringVars, req_queued>>
       /\ (At("flush", "after_fsub") /\ ~rret.ok /\ rstack' # rstack) =>
             /\ Returns("flush") /\ ~rret'.ok
             /\ UNCHANGED <<ringVars, req_queued, req>>]_vars

\* The submit is being retried after EBUSY and a dispatch, inside flush.
C25_Witness ==
    /\ ev.res = "fsub:retry"
    /\ At("flush_submissions", "enter")
    /\ Caller.fn = "flush"
    /\ rret.ok

\* C26: the pair (timeouts, etime) flush returns accounts for every timeout
\* marker whose completion was dispatched during the call, the ones
\* dispatched on the EBUSY path of flush_submissions included: the counter
\* is the argument less the markers dispatched, and etime is set when it was
\* passed set or one of them carried -ETIME.
C26_FlushAccountsMarkers ==
    [][(Returns("flush") /\ rret'.ok) =>
          /\ rret'.timeouts = Top.timeouts - Top.seen
          /\ rret'.etime = (Top.etime \/ Top.seenEtime)]_vars

\* A call of run_for_ns is on the reactor's call stack.
InRunForNs == \E i \in 1..Len(rstack) : rstack[i].fn = "run_for_ns"

\* C27: run_for_ns terminates provided the kernel completes every marker
\* pushed (EINTR, EBUSY and EAGAIN being transient), and when it returns Ok
\* every marker it pushed has been reaped: none remains in the ring.
C27_RunForNsTerminates ==
    /\ InRunForNs ~> ~InRunForNs
    /\ [][(RfnReturns /\ rret'.ok) => MarkersAlive = 0]_vars

\* run_for_ns takes a step from the point where its push has failed ...
RfnFullStep == At("run_for_ns", "while") /\ RfnLoops(Top) /\ PushFails /\ rstack' # rstack

\* ... and from the point where the forced flush has returned.
RfnForcedStep == At("run_for_ns", "after_force") /\ (rstack' # rstack \/ epc' # epc)

\* The retried push succeeds: the marker is in the submission queue, counted
\* once (the counter the forced flush returned is passed on as it is), and
\* run_for_ns goes on to flush(1, ..).
RfnRetried ==
    /\ epc' = "hook"
    /\ sq' = Append(sq, NULL)
    /\ Len(rstack') = Len(rstack) + 1
    /\ Top'.fn = "flush" /\ Top'.want = 1
    /\ Top'.timeouts = rret.timeouts /\ Top'.etime = rret.etime
    /\ rstack'[Len(rstack)].pushed = Top.pushed + 1

\* C28 (as stated): when the push of a marker fails, run_for_ns force-flushes
\* the submissions, with the marker counted once, and retries the push
\* exactly once; the retry succeeds.
C28_PushRetry ==
    [][/\ RfnFullStep =>
             /\ Top'.fn = "flush_submissions" /\ Top'.want = 0
             /\ Top'.timeouts = Top.timeouts + 1
             /\ UNCHANGED ringVars
       /\ RfnForcedStep => RfnRetried]_vars

\* C28 (amended): the same when the forced flush returns Ok; when it returns
\* an error, run_for_ns returns that error and does not retry the push.
C28_PushRetryOk ==
    [][/\ RfnFullStep =>
             /\ Top'.fn = "flush_submissions" /\ Top'.want = 0
             /\ Top'.timeouts = Top.timeouts + 1
             /\ UNCHANGED ringVars
       /\ RfnForcedStep =>
             IF rret.ok
             THEN RfnRetried
             ELSE Returns("run_for_ns") /\ ~rret'.ok /\ UNCHANGED <<ringVars, epc>>]_vars

\* The retried push has put the marker into the flushed submission queue.
C28_Witness ==
    /\ ev.res = "rfn:forced"
    /\ rstack # <<>> /\ Top.fn = "flush"
    /\ sq = <<NULL>>

\* C29: every timeout marker run_for_ns(ns) pushes carries user-data 0 and
\* the deadline (now_sec, now_nsec + ns) of the clock value read at the
\* start of the call.
C29_MarkerDeadline ==
    InDeadline("pushed") =>
        \A i \in 1..Len(sq) :
            /\ sq[i].user_data = NULL
            /\ sq[i].ts = [tv_sec |-> Top.ts.tv_sec,
                           tv_nsec |-> Top.ts.tv_nsec + Top.ns]

\* The requests submitted, and those whose completion has been dispatched,
\* in a call of SpecFcomp (where no task is polled).
FcompSubmitted == {t \in Slots : req[t].waker}
FcompDispatched == {t \in Slots : req[t].return_val # None}

WakeStep(t) ==
    \/ DispatchStep(t)
    \/ ev' # ev /\ ev'.op \in {"foreign_wake", "user_wake"} /\ ev'.t = t

\* C31: waking a task links it at the head of the run queue of the executor
\* its header records and changes nothing else of the executor, the pool or
\* any task; waking a task whose header records no executor leaves the run
\* queue, the live counter and every link field as they were.
C31_WakeFrame ==
    [][\A t \in Slots : WakeStep(t) =>
          /\ IF executor[t]
             THEN /\ task_queue_head' = t
                  /\ executor_queue_next' =
                        [executor_queue_next EXCEPT ![t] = task_queue_head]
             ELSE UNCHANGED <<task_queue_head, executor_queue_next>>
          /\ UNCHANGED <<executor, spawned, task_pool_queue_next, poll_fn,
                         task_pool_ptr, task_pool_finalizer_fn, future,
                         poolVars, held>>]_vars

\* User code has woken a task it prepared and never spawned.
C31_Witness ==
    /\ ev.op = "user_wake"
    /\ ev.res = "none"
    /\ ev.t \in held
    /\ ~executor[ev.t]
    /\ task_queue_head = NULL

\* The chain from h ends at a null link (it does not run into a cycle).
Terminated(h, nxt) ==
    LET s == ChainSeq(h, nxt) IN s = <<>> \/ nxt[s[Len(s)]] = NULL

\* The nodes drain has detached and not visited yet, in visiting order.
Detached == ChainSeq(cursor, executor_queue_next)

\* C32: drain detaches the whole chain (the head becomes null); each node's
\* link is cleared before the node is visited; nothing that happens during a
\* visit, the re-enqueueing of the visited node included, alters the detached
\* nodes still to visit or their order; and when the drain ends the queue
\* holds exactly the nodes enqueued during it, each once, in a chain that
\* ends at a null link.
C32_DrainDetaches ==
    /\ [][/\ (epc = "drain" /\ epc' = "walk") =>
                /\ task_queue_head' = NULL
                /\ Detached' = ChainSeq(task_queue_head, executor_queue_next)
          /\ (epc = "walk" /\ visited' # visited) =>
                /\ executor_queue_next'[cursor] = NULL
                /\ Detached' = Tail(Detached)
          /\ epc \in {"poll", "ret"} =>
                /\ Detached' = Detached
                /\ cur \notin Range(Detached)]_vars
    /\ []((epc = "walk" /\ cursor = NULL) =>
             /\ Range(ChainSeq(task_queue_head, executor_queue_next)) = enqDuring
             /\ Terminated(task_queue_head, executor_queue_next))

\* A drain has ended in which the node visited first was enqueued again
\* during its own visit, with another detached node still to visit.
C32_Witness ==
    /\ epc = "walk" /\ cursor = NULL
    /\ Len(visited) >= 2
    /\ visited[1] \in enqDuring
    /\ visited[1] \in Range(ChainSeq(task_queue_head, executor_queue_next))

\* The free list, head first.
FreeSeq == ChainSeq(free_list_head, task_pool_queue_next)

\* The step in which the finalizer of a finished task has run.
FinalizeStep ==
    \/ ev'.op = "finalize"
    \/ ev'.op = "visit_end" /\ ev'.res = "ready"

\* C33: while the high-water index is below N a prepare hands out the slot
\* with that index and increments the index, the free list untouched even
\* when it holds slots; with the index at N a prepare pops the head of the
\* free list, which is the slot finalized last; the index never decreases and
\* never exceeds N.
C33_PoolPolicy ==
    /\ [](exhaust_list_cnt \in 0..NSlots)
    /\ [][/\ exhaust_list_cnt' >= exhaust_list_cnt
          /\ PrepareStep =>
                IF exhaust_list_cnt < NSlots
                THEN /\ ev'.res = "some"
                     /\ ev'.t = exhaust_list_cnt + 1
                     /\ exhaust_list_cnt' = exhaust_list_cnt + 1
                     /\ FreeSeq' = FreeSeq
                ELSE /\ exhaust_list_cnt' = exhaust_list_cnt
                     /\ FreeSeq # <<>> =>
                           /\ ev'.res = "some"
                           /\ ev'.t = Head(FreeSeq)
                           /\ FreeSeq' = Tail(FreeSeq)
          /\ FinalizeStep => FreeSeq' = <<ev'.t>> \o FreeSeq]_vars

\* A prepare has taken an unused slot while a finalized slot was in the free
\* list.
C33_Witness ==
    /\ ev.op = "prepare" /\ ev.res = "some"
    /\ ev.t = NSlots
    /\ FreeSeq = <<1>>

\* A prepare has popped the slot finalized last from a free list of two.
C33_WitnessPop ==
    /\ ev.op = "prepare" /\ ev.res = "some"
    /\ exhaust_list_cnt = NSlots
    /\ Len(FreeSeq) = 1 /\ ev.t # FreeSeq[1]

\* Every task storage of the model, pool slot or standalone.
AllStorages == DOMAIN poll_fn

\* C34: a header has a pool pointer exactly when it has a finalizer thunk:
\* TaskPool's prepare sets both, TaskStorage's prepare sets neither; so the
\* visitor never calls a finalizer with a null pool pointer, and a finished
\* standalone task is counted but never put on a free list.
C34_PoolFieldsTogether ==
    /\ [](\A t \in AllStorages :
             /\ task_pool_ptr[t] <=> task_pool_finalizer_fn[t]
             /\ (t \notin Slots) =>
                   /\ ~task_pool_ptr[t]
                   /\ t \notin Range(ChainSeq(free_list_head, task_pool_queue_next)))
    /\ []((epc = "ret" /\ finished) => ~FinalizePanics(cur))
    /\ [][(epc = "ret" /\ finished /\ epc' # "ret") =>
             /\ spawned' = spawned - 1
             /\ IF cur \in Slots
                THEN free_list_head' = cur
                ELSE UNCHANGED <<free_list_head, task_pool_queue_next>>]_vars

\* The visitor has counted a finished standalone task; a pool task finished
\* before it is in the free list.
C34_Witness ==
    /\ ev.op = "visit_end" /\ ev.res = "ready"
    /\ ev.t = StandaloneStorage
    /\ free_list_head \in Slots

\* The order in which Executor::run goes through its loop: the drain, its
\* visits, the hook, the exit check.
RunOrder ==
    {<<"user", "drain">>, <<"drain", "walk">>, <<"walk", "poll">>,
     <<"poll", "ret">>, <<"ret", "walk">>, <<"walk", "hook">>,
     <<"hook", "check">>, <<"check", "drain">>, <<"check", "done">>}

\* C35: in each iteration of Executor::run the post-drain hook is invoked
\* exactly once, when the drain has reached the end of the detached chain,
\* and the exit check comes only after the hook returned: a drain is always
\* followed by the hook and never by another drain or by the return, so run
\* invokes the hook at least once, with no task spawned too, and once more
\* after the drain in which the last task reported ready.
C35_HookOncePerIteration ==
    [][/\ epc' # epc => (<<epc, epc'>> \in RunOrder \/ epc' = "crashed")
       /\ (epc = "walk" /\ epc' = "hook") =>
             /\ cursor = NULL
             /\ rstack = <<>> /\ Len(rstack') = 1
       /\ (epc = "walk" /\ cursor = NULL) => epc' \in {"walk", "hook"}
       /\ (epc = "walk" /\ cursor # NULL) => epc' # "hook"
       /\ (epc = "hook" /\ epc' = "check") => rstack = <<>>
       /\ (epc = "hook") => Len(rstack') <= 1 \/ rstack # <<>>]_vars

\* The hook has run and returned in a call of run made with no task spawned.
C35_Witness ==
    /\ ev.op = "hook_end"
    /\ epc = "check"
    /\ spawned = 0
    /\ exhaust_list_cnt = 0

\* The hook runs after the drain in which the last task reported ready.
C35_WitnessLast ==
    /\ epc = "hook"
    /\ spawned = 0
    /\ \E t \in Slots : future[t].st = "dropped" /\ t \in Range(visited)

\* C36: a task whose poll has reported ready (its future is dropped) is not
\* visited by a drain, is not linked into the run queue and has no completion
\* dispatched to a request of its own, until prepare has written a fresh
\* future into its slot.
C36_FinishedStaysOut ==
    /\ [](ev.op = "visit" => future[ev.t].st # "dropped")
    /\ [][/\ (task_queue_head' # task_queue_head /\ task_queue_head' # NULL)
                => future'[task_queue_head'].st = "live"
          /\ \A t \in Slots : DispatchStep(t) => future[t].st = "live"]_vars

\* C37: the free list of the pool holds no slot twice (its chain ends at a
\* null link) and only slots whose task has reported ready and that have not
\* been prepared again; it grows only by the finalizer, which runs exactly
\* once for each task that reports ready and adds that task's slot, and a
\* slot popped by prepare is not reachable from the head any more.
C37_FreeListSound ==
    /\ [](/\ Terminated(free_list_head, task_pool_queue_next)
          /\ \A t \in Range(FreeSeq) :
                /\ future[t].st = "dropped"
                /\ t \notin held
                /\ ~Linked(t))
    /\ [][/\ (PrepareStep /\ ev'.res = "some") => ev'.t \notin Range(FreeSeq')
          /\ (epc = "ret" /\ finished /\ epc' # "ret") =>
                /\ cur \notin Range(FreeSeq)
                /\ FreeSeq' = <<cur>> \o FreeSeq
          /\ Len(FreeSeq') > Len(FreeSeq) => (epc = "ret" /\ finished)
          /\ Range(FreeSeq') \subseteq Range(FreeSeq) \cup {cur}]_vars

\* A task has spawned a child into slot 1, which prepare popped from the
\* free list: the first task had finished there.
C37_Witness ==
    /\ ev.op = "child" /\ ev.res = "some"
    /\ ev.t = 1
    /\ exhaust_list_cnt = NSlots
    /\ future[1].st = "live"

\* flush_submissions is recovering from EBUSY/EAGAIN: the flush_completions(1)
\* it called before retrying the submit is running.
InBusyRecovery ==
    /\ Len(rstack) >= 2
    /\ Top.fn = "flush_completions"
    /\ Caller.fn = "flush_submissions" /\ Caller.pc = "after_busy"

\* C38: the EBUSY/EAGAIN recovery terminates: once the kernel has placed a
\* completion of any kind, a request's or a timeout marker's, in the
\* completion queue, the recovery's flush_completions returns (and the
\* submit is retried), with no user request in flight too.
C38_BusyRecoveryReturns ==
    (InBusyRecovery /\ cq # <<>>) ~> ~InBusyRecovery

\* C39: the local timeout counter does not underflow: whenever
\* flush_completions dispatches a marker's completion, the timeouts value of
\* the running call still counts a marker, in every call the runtime makes
\* (Reactor::run's flush(0, 0, false) and calls after a failed run_for_ns
\* included); no call ever holds a counter below zero.
C39_TimeoutsNeverUnderflow ==
    /\ [][MarkerStep => Top.timeouts > 0]_vars
    /\ [](\A i \in 1..Len(rstack) : rstack[i].timeouts >= 0)

\* C40: for every clock reading with 0 <= now_nsec < 10^9 and every u32 ns,
\* the sum now_nsec + ns that run_for_ns forms for the nanosecond field does
\* not overflow 32 bits (the addition does not panic and does not wrap) and
\* is below 10^9.
C40_NsecFieldValid ==
    /\ epc # "crashed"
    /\ (rstack # <<>> /\ Top.pc \in {"build", "pushed"}) =>
          /\ ~Top.wrapped
          /\ ValidNsec(Top.tmp.tv_nsec)

====
